---- MODULE Spec2Model ----
(***************************************************************************)
(* A model of the contextual-bandit training pipeline:                     *)
(*   - the arm-scoring pipeline of SupervisedModelTraining                 *)
(*     (_get_arm_indices, _create_ob_data_frame, _get_arm_scores,          *)
(*      _prepare_for_agent, _save_test_set_predictions);                   *)
(*   - the life cycle of a training task (run, train, the output           *)
(*     directory, the cuda device pool);                                   *)
(*   - the index_mapping property and the cached data frames;              *)
(*   - the predictors of recommendation/model/contextual_bandits.py.       *)
(***************************************************************************)
EXTENDS Integers, Sequences, FiniteSets, TLC

VARIABLES
    \* ---- arm-scoring pipeline (SupervisedModelTraining) ----
    arms_config,      \* project_config / task parameters the pipeline reads
    df_items,         \* item column of pd.concat([train_data_frame, val_data_frame])
    test_obs,         \* test_data_frame.to_dict("records")
    unique_items,     \* the cached attribute _unique_items (a numpy array)
    prepared,         \* what the last _prepare_for_agent call got and returned
    predictions,      \* the three columns _save_test_set_predictions writes
    arms_pc,          \* "idle", "prepared" (direct call) or "saved"
    calls,            \* number of pipeline calls made on this task object
    \* ---- the task object ----
    attrs,            \* names of the lazily set attributes the object has (hasattr)
    \* ---- the life cycle of the task: run() and train() ----
    interrupted,      \* a KeyboardInterrupt ended the trial of the run in progress
    run_cfg,          \* the class of the task and the parameters run/train read
    run_pc,           \* "idle", the phase of train() in progress, "returned", "raised"
    phases_log,       \* the phases the current run of train() has entered, in order
    output_dir,       \* the directory of output(): whether it exists, its files
    train_raised,     \* the exception train() raised in the current run
    raised,           \* the exception run() propagated to its caller
    runs,             \* number of run() calls on the task object
    cuda_pool,        \* CudaRepository: the available device ids (a list)
    device_id,        \* the cached attribute _device_id
    device_gets,      \* per device id, how often get_avaliable_device returned it
    device_puts,      \* per device id, how often put_available_device got it
    weights_file,     \* the state the checkpoint file at the weights path holds
    train_module,     \* the module train() created and the trial trains
    trained_modules,  \* the modules get_trained_module returned in this run
    modules_created,  \* number of create_module() calls
    \* ---- index_mapping and the cached data frames ----
    csv,              \* the item column of the train, val and test csv files
    frames,           \* the item column of the cached data frames
    index_mapping,    \* the cached attribute _index_mapping
    mapping_file,     \* what the index-mapping file of the output directory holds
    index_result,     \* how the last access of a property ended
    index_log,        \* the mappings the index_mapping property returned, in order
    all_columns,      \* project_config.all_columns
    columns_result,   \* the dictionary the creation of the mapping built
    \* ---- the batch generators ----
    datasets,         \* the rows of the train, val and test data frames
    task_batch_size,  \* the task parameter batch_size
    generator_result, \* per split: the generator last handed out and one pass over it
    \* ---- the project configuration ----
    loss_function,    \* the task parameter loss_function
    loaded_config,    \* the ProjectConfig that load_attr(self.project) returns
    project_config,   \* the cached attribute _project_config
    config_accesses,  \* number of accesses of the project_config property
    \* ---- saved task parameters ----
    param_kwargs,     \* param_kwargs of the task that runs
    task_dirs,        \* the task directory and the interaction directory of its id
    load_result,      \* the last load_torch_model_training_from_... call
    \* ---- the exploration plot ----
    plot_args,        \* the arguments of plot_exploration_arm
    plot_result,      \* how the last call ended and the figure it returned
    \* ---- the predictors ----
    dfm,              \* a DeepFactorizationMachine object
    dfm_result,       \* the last predict call on it: its inputs, how it ended
    bandit,           \* a ContextualBandit object
    bandit_result     \* the last forward call on it

vars_arms == <<arms_config, df_items, test_obs, unique_items, prepared,
               predictions, arms_pc, calls>>

vars_devices == <<device_gets, device_puts>>

vars_modules == <<weights_file, train_module, trained_modules, modules_created>>

vars_run == <<interrupted, run_cfg, run_pc, phases_log, train_raised, raised,
              runs, cuda_pool, device_id, vars_devices, vars_modules>>

vars_columns == <<all_columns, columns_result>>

vars_generators == <<datasets, task_batch_size, generator_result>>

vars_index == <<csv, frames, index_mapping, mapping_file, index_result, index_log,
                vars_columns, vars_generators>>

vars_net == <<dfm, dfm_result, bandit, bandit_result>>

vars_config == <<loss_function, loaded_config, project_config, config_accesses>>

vars_params == <<param_kwargs, task_dirs, load_result>>

vars_plot == <<plot_args, plot_result>>

vars_task == <<vars_config, vars_params, vars_plot>>

vars == <<arms_config, df_items, test_obs, unique_items, prepared,
          predictions, arms_pc, calls, attrs, interrupted, run_cfg, run_pc, phases_log,
          output_dir, train_raised, raised, runs, cuda_pool, device_id,
          device_gets, device_puts, weights_file, train_module, trained_modules,
          modules_created,
          csv, frames, index_mapping, mapping_file, index_result, index_log,
          all_columns, columns_result, datasets, task_batch_size, generator_result,
          dfm, dfm_result, bandit, bandit_result,
          loss_function, loaded_config, project_config, config_accesses,
          param_kwargs, task_dirs, load_result, plot_args, plot_result>>

-----------------------------------------------------------------------------
(* Bounds of the model *)
MaxObs == 2          \* observations per call
MaxArm == 2          \* largest arm id of an available-arms column
MaxCalls == 2        \* pipeline calls per task object
MaxBatch == 2        \* batch_size values 1..MaxBatch
MaxRuns == 2         \* run() calls per task object
MaxDevices == 2      \* cuda devices of the machine
MaxEpochs == 2       \* epochs of a training trial
MaxRows == 2         \* rows of the train csv file
MaxDataRows == 3     \* rows of a data set handed to a batch generator
MaxConfigAccesses == 3  \* accesses of the project_config property per task object
MaxAuxColumns == 2   \* auxiliar output columns of a loaded project configuration
MaxRounds == 3       \* rows of the data frame of plot_exploration_arm
MaxPlotArm == 2      \* largest item id of that data frame
MaxWindow == 2       \* window of the rolling mean
MaxAllItems == 2     \* length of the all_items list
MaxAccesses == 3     \* returns of the index_mapping property per task object
MaxOrder == 3        \* order of a factorization machine
MaxFactors == 2      \* n_factors
MaxFilters == 2      \* num_filters
MaxWidth == 2        \* widths of input representations, numerical_content_dim

(* Program constant: self.unique_items[:100] *)
ArmLimit == 100

-----------------------------------------------------------------------------
(* The parts of the state a specification leaves alone *)

ArmsIdle ==
    /\ arms_config = [available_arms_column_name |-> FALSE, reward_model |-> TRUE,
                      batch_size |-> 1, hist_view_is_input |-> FALSE]
    /\ df_items = <<1>>
    /\ test_obs = <<>>
    /\ unique_items = <<>>
    /\ prepared = [obs |-> <<>>, dataset |-> <<>>, arm_contexts_list |-> <<>>,
                   arm_indices_list |-> <<>>, arm_scores_list |-> <<>>,
                   all_arm_scores |-> <<>>, buffer |-> <<>>]
    /\ predictions = [sorted_actions |-> <<>>, prob_actions |-> <<>>,
                      action_scores |-> <<>>]
    /\ arms_pc = "idle"
    /\ calls = 0

RunIdle ==
    /\ interrupted = FALSE
    /\ run_cfg = [task_class |-> "SupervisedModelTraining", device |-> "cpu",
                  test_size_positive |-> TRUE]
    /\ run_pc = "idle"
    /\ phases_log = <<>>
    /\ train_raised = [kind |-> "none", at |-> "none"]
    /\ raised = [kind |-> "none", at |-> "none"]
    /\ runs = 0
    /\ cuda_pool = <<>>
    /\ device_id = -1
    /\ device_gets = <<>>
    /\ device_puts = <<>>
    /\ weights_file = [run |-> -1, epoch |-> -1]
    /\ train_module = [id |-> 0, state |-> [run |-> 0, epoch |-> 0], mode |-> "train"]
    /\ trained_modules = <<>>
    /\ modules_created = 0

NotCalled == [called |-> FALSE, generator |-> [kind |-> "None"], batches |-> <<>>]

GeneratorsIdle ==
    /\ datasets = [train |-> <<>>, val |-> <<>>, test |-> <<>>]
    /\ task_batch_size = 1
    /\ generator_result = [w \in {"train", "val", "test"} |-> NotCalled]

IndexIdle ==
    /\ csv = [train |-> <<>>, val |-> <<>>, test |-> <<>>]
    /\ frames = [train |-> <<>>, val |-> <<>>, test |-> <<>>]
    /\ index_mapping = <<>>
    /\ mapping_file = <<>>
    /\ index_result = [status |-> "none", how |-> "none", frame |-> "none",
                       values |-> <<>>]
    /\ index_log = <<>>
    /\ all_columns = <<>>
    /\ columns_result = [status |-> "none"]
    /\ GeneratorsIdle

NoConfig == [cached |-> FALSE, auxiliar_output_columns |-> <<>>]

ConfigIdle ==
    /\ loss_function = "mse"
    /\ loaded_config = [propensity_score_column_name |-> "ps",
                        auxiliar_output_columns |-> <<>>]
    /\ project_config = NoConfig
    /\ config_accesses = 0

NoFile == [t |-> "absent"]

NoDirs == [task_dir        |-> [exists |-> FALSE, params |-> NoFile],
           interaction_dir |-> [exists |-> FALSE, params |-> NoFile]]

ParamsIdle ==
    /\ param_kwargs = <<>>
    /\ task_dirs = NoDirs
    /\ load_result = [status |-> "none"]

NoPlotArgs == [df |-> [idx |-> <<>>, item |-> <<>>], window |-> 1,
               roll |-> FALSE, all_items |-> <<>>]

PlotIdle ==
    /\ plot_args = NoPlotArgs
    /\ plot_result = [status |-> "none"]

TaskIdle == ConfigIdle /\ ParamsIdle /\ PlotIdle

NetIdle ==
    /\ dfm = [kind |-> "none"]
    /\ dfm_result = [status |-> "none"]
    /\ bandit = [kind |-> "none"]
    /\ bandit_result = [status |-> "none"]

-----------------------------------------------------------------------------
(* Generic helpers *)

Min(a, b) == IF a < b THEN a ELSE b

Range(s) == {s[i] : i \in 1..Len(s)}

\* Python slice s[a:b] of a list, 0-based, half open, clipped to the list.
PySlice(s, a, b) == SubSeq(s, a + 1, Min(b, Len(s)))

RECURSIVE FlattenRange(_, _, _)
\* ss[lo] \o ... \o ss[hi], halving the range to keep the evaluation shallow
FlattenRange(ss, lo, hi) ==
    IF lo > hi THEN <<>>
    ELSE IF lo = hi THEN ss[lo]
    ELSE LET mid == (lo + hi) \div 2
         IN  FlattenRange(ss, lo, mid) \o FlattenRange(ss, mid + 1, hi)

\* the concatenation of a sequence of sequences
Flatten(ss) == FlattenRange(ss, 1, Len(ss))

Count(s, v) == Cardinality({i \in 1..Len(s) : s[i] = v})

\* t is a rearrangement of s (same elements with the same multiplicities)
IsPermutation(s, t) ==
    /\ Len(s) = Len(t)
    /\ \A v \in Range(s) \cup Range(t) : Count(s, v) = Count(t, v)

RECURSIVE MaxOf(_)
MaxOf(s) == IF Len(s) = 1 THEN s[1]
            ELSE LET m == MaxOf(Tail(s)) IN IF s[1] > m THEN s[1] ELSE m

-----------------------------------------------------------------------------
(* random.shuffle(x) rearranges the mutable sequence x in place by a       *)
(* permutation the random source decides.  The model draws the permutation *)
(* from a family indexed by a stream: a rotation by stream % 3, reversed    *)
(* when stream >= 3.  For sequences of up to three items the family is     *)
(* every permutation; StreamsFor(n) are the streams that give distinct      *)
(* rearrangements of n items.                                              *)
Streams == 0..5

StreamsFor(n) == IF n <= 1 THEN {0} ELSE IF n = 2 THEN {0, 1} ELSE Streams

Shuffle(x, stream) ==
    LET n == Len(x)
    IN  [k \in 1..n |->
            LET rotated == ((k - 1) + (stream % 3)) % n
            IN  x[(IF stream \div 3 = 1 THEN (n - 1) - rotated ELSE rotated) + 1]]

-----------------------------------------------------------------------------
(* pandas / numpy helpers used by the pipeline *)

\* the positions 1..Len(s) that satisfy Keep, ascending
PositionsWhere(s, Keep(_)) == SelectSeq([i \in 1..Len(s) |-> i], Keep)

\* Series.unique(): the distinct values in order of first appearance
Unique(s) ==
    LET first == PositionsWhere(s, LAMBDA i : \A j \in 1..(i - 1) : s[j] # s[i])
    IN  [k \in 1..Len(first) |-> s[first[k]]]

\* np.flatnonzero(mask): the 0-based positions of the non-zero entries, ascending
FlatNonZeroOneBased(mask) == PositionsWhere(mask, LAMBDA i : mask[i] # 0)

\* np.flatnonzero(mask): the 0-based positions of the non-zero entries
FlatNonZero(mask) ==
    LET nz == PositionsWhere(mask, LAMBDA i : mask[i] # 0)
    IN  [k \in 1..Len(nz) |-> nz[k] - 1]

\* items = np.zeros(np.max(available_arms) + 1); items[available_arms] = 1
EncodeMask(available_arms) ==
    [p \in 1..(MaxOf(available_arms) + 1) |->
        IF (p - 1) \in Range(available_arms) THEN 1 ELSE 0]

\* a stable sort of s by ascending integer key: the keys in ascending order,
\* and for each key the elements that carry it, in their order in s
StableSortBy(s, Key(_)) ==
    LET keys == {Key(s[i]) : i \in 1..Len(s)}
        asc  == [k \in 1..Cardinality(keys) |->
                    CHOOSE v \in keys : Cardinality({w \in keys : w < v}) = k - 1]
    IN  Flatten([k \in 1..Cardinality(keys) |->
                    SelectSeq(s, LAMBDA e : Key(e) = asc[k])])

\* sorted(s): ascending
Sorted(s) == StableSortBy(s, LAMBDA e : e)

\* reversed(s)
Reversed(s) == [i \in 1..Len(s) |-> s[Len(s) + 1 - i]]

-----------------------------------------------------------------------------
(* Attributes of the task object: the lazily computed properties cache     *)
(* their value in an attribute and test it with hasattr.                   *)

cache_attrs ==
    {"_test_dataset", "_val_dataset", "_train_dataset", "_test_data_frame",
     "_val_data_frame", "_train_data_frame", "_metadata_data_frame"}

\* cache_cleanup(): delete every cache attribute the object has
CacheCleanupAttrs(a) == a \ cache_attrs

\* SupervisedModelTraining.clean()
CleanAttrs(a) == a \ {"_train_dataset", "_test_dataset", "_train_data_frame"}

\* index_mapping, on the path that returns: the attributes the object has
\* afterwards (file_exists: the index-mapping file is in the output directory).
\* Creating the mapping reads train_data_frame and val_data_frame under the
\* _creating_index_mapping marker, which is deleted at the end.
IndexMappingAttrs(a, file_exists) ==
    IF "_index_mapping" \in a THEN a
    ELSE IF file_exists THEN a \cup {"_index_mapping"}
    ELSE (a \cup {"_train_data_frame", "_val_data_frame", "_index_mapping"})
             \ {"_creating_index_mapping"}

FrameAttr(which) ==
    CASE which = "train" -> "_train_data_frame"
      [] which = "val"   -> "_val_data_frame"
      [] which = "test"  -> "_test_data_frame"

IndexedAttr(which) ==
    CASE which = "train" -> "_train_data_frame_indexed"
      [] which = "val"   -> "_val_data_frame_indexed"
      [] which = "test"  -> "_test_data_frame_indexed"

\* train_data_frame / val_data_frame / test_data_frame, on the path that
\* returns; which is "train", "val" or "test".
DataFrameAttrs(a, which, file_exists) ==
    LET frame == FrameAttr(which)
        flag  == IndexedAttr(which)
        a1    == a \cup {frame}
    IN  IF "_creating_index_mapping" \notin a1 /\ flag \notin a1
        THEN IndexMappingAttrs(a1, file_exists) \cup {flag}
        ELSE a1

\* get_data_frame_for_indexing(): pd.concat([train_data_frame, val_data_frame])
DataFrameForIndexingAttrs(a, file_exists) ==
    DataFrameAttrs(DataFrameAttrs(a, "train", file_exists), "val", file_exists)

\* unique_items: the attributes the object has afterwards
UniqueItemsAttrs(a, file_exists) ==
    IF "_unique_items" \in a THEN a
    ELSE DataFrameForIndexingAttrs(a, file_exists) \cup {"_unique_items"}

\* _save_test_set_predictions: test_data_frame, clean(), and unique_items
\* when the arms of an observation are the unique items
SavePredictionsAttrs(a, cfg) ==
    LET a1 == CleanAttrs(DataFrameAttrs(a, "test", TRUE))
    IN  IF cfg.available_arms_column_name THEN a1 ELSE UniqueItemsAttrs(a1, TRUE)

DatasetAttr(which) ==
    CASE which = "train" -> "_train_dataset"
      [] which = "val"   -> "_val_dataset"
      [] which = "test"  -> "_test_dataset"

\* train_dataset / val_dataset / test_dataset: a data set that is not cached
\* is built from the data frame and the index mapping
DatasetAttrs(a, which, file_exists) ==
    IF DatasetAttr(which) \in a THEN a
    ELSE IndexMappingAttrs(DataFrameAttrs(a, which, file_exists), file_exists)
             \cup {DatasetAttr(which)}

\* get_val_generator(): val_data_frame, then val_dataset
ValGeneratorAttrs(a, file_exists) ==
    DatasetAttrs(DataFrameAttrs(a, "val", file_exists), "val", file_exists)

\* train(), up to create_trial: get_train_generator, get_val_generator,
\* get_sample_batch and train_data_frame.sample(100)
SetupAttrs(a, file_exists) ==
    DataFrameAttrs(ValGeneratorAttrs(DatasetAttrs(a, "train", file_exists), file_exists),
                   "train", file_exists)

-----------------------------------------------------------------------------
(* The life cycle of a training task: _BaseModelTraining.run and           *)
(* TorchModelTraining.train (BaseModelTraining.run and                     *)
(* BaseTorchModelTraining.fit in recommendation/task/model/base.py).       *)

NoExc == [kind |-> "none", at |-> "none"]

\* exceptions a phase of train() can end with; KeyboardInterrupt and
\* SystemExit are BaseExceptions that "except Exception" does not catch
ExcKinds == {"Exception", "KeyboardInterrupt", "SystemExit"}

NoDir == [exists |-> FALSE, files |-> {}]

\* os.makedirs(self.output().path, exist_ok=True); self._save_params()
MakeDirsAndSaveParams(dir) ==
    [exists |-> TRUE, files |-> dir.files \cup {"params.json"}]

WriteFiles(dir, names) == [dir EXCEPT !.files = @ \cup names]

RmTreeSkipped(dir) == dir

\* shutil.rmtree(self.output().path)
RmTree(dir) == NoDir

\* self.output().exists(), as a worker or the scheduler sees it
OutputExists == output_dir.exists

\* the device_id property: the cached _device_id, or a device popped from the
\* repository when device = "cuda" and None otherwise
DeviceIdValue(a, cached, pool, cfg) ==
    IF "_device_id" \in a THEN cached
    ELSE IF cfg.device = "cuda" THEN pool[Len(pool)] ELSE -1

DeviceIdPool(a, pool, cfg) ==
    IF "_device_id" \notin a /\ cfg.device = "cuda"
    THEN SubSeq(pool, 1, Len(pool) - 1) ELSE pool

\* finally: gc.collect(); if self.device == "cuda": put_available_device(self.device_id)
FinallyPool(a, cached, pool, cfg) ==
    IF cfg.device = "cuda"
    THEN Append(DeviceIdPool(a, pool, cfg), DeviceIdValue(a, cached, pool, cfg))
    ELSE pool

FinallyAttrs(a, cfg) == IF cfg.device = "cuda" THEN a \cup {"_device_id"} ELSE a

FinallyDeviceId(a, cached, pool, cfg) ==
    IF cfg.device = "cuda" THEN DeviceIdValue(a, cached, pool, cfg) ELSE cached

Bump(f, d) == [f EXCEPT ![d] = @ + 1]

\* the device_id property counts as a get when it asks the repository
DeviceGets(a, gets, pool, cfg) ==
    IF "_device_id" \notin a /\ cfg.device = "cuda"
    THEN Bump(gets, pool[Len(pool)]) ELSE gets

\* finally: the device_id property, then put_available_device
FinallyGets(a, gets, pool, cfg) == DeviceGets(a, gets, pool, cfg)

FinallyPuts(a, cached, puts, pool, cfg) ==
    IF cfg.device = "cuda"
    THEN Bump(puts, DeviceIdValue(a, cached, pool, cfg)) ELSE puts

NoWeights == [run |-> -1, epoch |-> -1]

\* the state of a module create_module() has just built (the seed is fixed)
InitialWeights == [run |-> 0, epoch |-> 0]

\* create_module(), as train() calls it
CreateModule(count) == [id |-> count + 1, state |-> InitialWeights, mode |-> "train"]

GetTrainedModuleNotLoaded(count, weights) ==
    [id |-> count + 1, state |-> InitialWeights, mode |-> "eval"]

\* get_trained_module(): a new module, load_state_dict of the file at the
\* weights path, eval()
GetTrainedModule(count, weights) ==
    [id |-> count + 1, state |-> weights, mode |-> "eval"]

\* the trial ran last_epoch epochs on the module; ModelCheckpoint with
\* save_best_only left the state of the best epoch in the weights file
TrialModule(module, run, last_epoch) ==
    [module EXCEPT !.state = [run |-> run, epoch |-> last_epoch]]

TrialWeights(run, best_epoch) == [run |-> run, epoch |-> best_epoch]

TrainPhases ==
    {"set_device", "setup", "trial", "history", "after_fit", "evaluate", "cache_cleanup"}

NextPhaseEvaluateFirst(phase, cls) ==
    CASE phase = "set_device"    -> "setup"
      [] phase = "setup"         -> "trial"
      [] phase = "trial"         -> "history"
      [] phase = "history"       -> "evaluate"
      [] phase = "evaluate"      -> "after_fit"
      [] phase = "after_fit"     -> "cache_cleanup"
      [] phase = "cache_cleanup" -> "done"

\* the order of the statements of TorchModelTraining.train; fit() of
\* BaseTorchModelTraining has no evaluate step
NextPhase(phase, cls) ==
    CASE phase = "set_device"    -> "setup"
      [] phase = "setup"         -> "trial"
      [] phase = "trial"         -> "history"
      [] phase = "history"       -> "after_fit"
      [] phase = "after_fit"     -> IF cls = "SupervisedModelTraining"
                                    THEN "evaluate" ELSE "cache_cleanup"
      [] phase = "evaluate"      -> "cache_cleanup"
      [] phase = "cache_cleanup" -> "done"

RunConfigs ==
    [task_class : {"SupervisedModelTraining", "BaseTorchModelTraining"},
     device : {"cpu", "cuda"},
     test_size_positive : BOOLEAN]

InitRun ==
    /\ run_cfg \in RunConfigs
    /\ interrupted = FALSE
    /\ run_pc = "idle"
    /\ phases_log = <<>>
    /\ output_dir = NoDir
    /\ train_raised = NoExc
    /\ raised = NoExc
    /\ runs = 0
    /\ cuda_pool \in {[i \in 1..n |-> i - 1] : n \in 1..MaxDevices}
    /\ device_id = -1
    /\ device_gets = [d \in 0..(MaxDevices - 1) |-> 0]
    /\ device_puts = [d \in 0..(MaxDevices - 1) |-> 0]
    /\ weights_file = NoWeights
    /\ train_module = [id |-> 0, state |-> InitialWeights, mode |-> "train"]
    /\ trained_modules = <<>>
    /\ modules_created = 0
    /\ attrs = {}
    /\ ArmsIdle
    /\ IndexIdle
    /\ NetIdle
    /\ TaskIdle

\* run(), up to the call of train(): seed_everything, makedirs, _save_params
RunBegin ==
    /\ UNCHANGED <<vars_arms, vars_index, vars_net, vars_task>>
    /\ run_pc \in {"idle", "returned", "raised"}
    /\ runs < MaxRuns
    /\ runs' = runs + 1
    /\ output_dir' = MakeDirsAndSaveParams(output_dir)
    /\ run_pc' = "set_device"
    /\ phases_log' = <<>>
    /\ train_raised' = NoExc
    /\ raised' = NoExc
    /\ trained_modules' = <<>>
    /\ interrupted' = FALSE
    /\ UNCHANGED <<run_cfg, cuda_pool, device_id, attrs, vars_devices,
                   weights_file, train_module, modules_created>>

\* train() or fit() ends with an exception it does not handle: run() removes
\* the output directory when it is an Exception, runs its finally clause and
\* lets the exception propagate
RunExcept(exc) ==
    /\ train_raised' = exc
    /\ raised' = exc
    /\ output_dir' = IF exc.kind = "Exception" THEN RmTree(output_dir) ELSE output_dir
    /\ cuda_pool' = FinallyPool(attrs, device_id, cuda_pool, run_cfg)
    /\ device_id' = FinallyDeviceId(attrs, device_id, cuda_pool, run_cfg)
    /\ attrs' = FinallyAttrs(attrs, run_cfg)
    /\ device_gets' = FinallyGets(attrs, device_gets, cuda_pool, run_cfg)
    /\ device_puts' = FinallyPuts(attrs, device_id, device_puts, cuda_pool, run_cfg)
    /\ weights_file' = IF exc.kind = "Exception" THEN NoWeights ELSE weights_file
    /\ run_pc' = "raised"
    /\ UNCHANGED <<interrupted, run_cfg, runs, train_module, trained_modules, modules_created>>

\* a statement of the phase in progress raises; a KeyboardInterrupt inside
\* trial.run is the one exception train() handles (see TrainTrialInterrupted)
PhaseRaises ==
    /\ UNCHANGED <<vars_arms, vars_index, vars_net, vars_task>>
    /\ run_pc \in TrainPhases
    /\ \E kind \in ExcKinds :
          /\ ~(run_pc = "trial" /\ kind = "KeyboardInterrupt")
          /\ RunExcept([kind |-> kind, at |-> run_pc])
    /\ phases_log' = Append(phases_log, run_pc)

\* if self.device == "cuda": torch.cuda.set_device(self.device_id)
TrainSetDevice ==
    /\ UNCHANGED <<vars_arms, vars_index, vars_net, vars_task>>
    /\ run_pc = "set_device"
    /\ cuda_pool' = IF run_cfg.device = "cuda"
                    THEN DeviceIdPool(attrs, cuda_pool, run_cfg) ELSE cuda_pool
    /\ device_id' = IF run_cfg.device = "cuda"
                    THEN DeviceIdValue(attrs, device_id, cuda_pool, run_cfg) ELSE device_id
    /\ attrs' = IF run_cfg.device = "cuda" THEN attrs \cup {"_device_id"} ELSE attrs
    /\ device_gets' = DeviceGets(attrs, device_gets, cuda_pool, run_cfg)
    /\ run_pc' = NextPhase(run_pc, run_cfg.task_class)
    /\ phases_log' = Append(phases_log, run_pc)
    /\ UNCHANGED <<interrupted, run_cfg, output_dir, train_raised, raised, runs, device_puts,
                   vars_modules>>

\* the generators, the module, summary.txt, sample_train.csv and the trial:
\* data sets that are not cached read and index the train and validation
\* frames, and an index mapping that is neither cached nor on disk is created
\* and written to the output directory
TrainSetup ==
    /\ UNCHANGED <<vars_arms, vars_index, vars_net, vars_task>>
    /\ run_pc = "setup"
    /\ attrs' = SetupAttrs(attrs, "index_mapping.pkl" \in output_dir.files)
    /\ output_dir' = WriteFiles(output_dir,
                        {"summary.txt"}
                        \cup (IF "_index_mapping" \in attrs' \ attrs
                              THEN {"index_mapping.pkl"} ELSE {})
                        \cup (IF run_cfg.task_class = "SupervisedModelTraining"
                              THEN {"sample_train.csv"} ELSE {}))
    /\ train_module' = CreateModule(modules_created)
    /\ modules_created' = modules_created + 1
    /\ run_pc' = NextPhase(run_pc, run_cfg.task_class)
    /\ phases_log' = Append(phases_log, run_pc)
    /\ UNCHANGED <<interrupted, run_cfg, train_raised, raised, runs, cuda_pool, device_id,
                   vars_devices, weights_file, trained_modules>>

\* trial.with_generators(...).run(epochs): every epoch appends to the history
\* file and the checkpoint callback writes the weights
TrainTrial ==
    /\ UNCHANGED <<vars_arms, vars_index, vars_net, vars_task>>
    /\ run_pc = "trial"
    /\ output_dir' = WriteFiles(output_dir, {"history.csv", "weights.pt"})
    /\ \E last_epoch \in 1..MaxEpochs : \E best_epoch \in 1..last_epoch :
          /\ train_module' = TrialModule(train_module, runs, last_epoch)
          /\ weights_file' = TrialWeights(runs, best_epoch)
    /\ run_pc' = NextPhase(run_pc, run_cfg.task_class)
    /\ phases_log' = Append(phases_log, run_pc)
    /\ UNCHANGED <<interrupted, run_cfg, train_raised, raised, runs, cuda_pool, device_id, attrs,
                   vars_devices, trained_modules, modules_created>>

\* except KeyboardInterrupt: print(...) -- the trial stops, before or after
\* its first epoch wrote history and weights, and train() goes on
TrainTrialInterrupted ==
    /\ UNCHANGED <<vars_arms, vars_index, vars_net, vars_task>>
    /\ run_pc = "trial"
    /\ \E last_epoch \in 0..MaxEpochs :
          IF last_epoch > 0
          THEN /\ output_dir' = WriteFiles(output_dir, {"history.csv", "weights.pt"})
               /\ train_module' = TrialModule(train_module, runs, last_epoch)
               /\ \E best_epoch \in 1..last_epoch :
                     weights_file' = TrialWeights(runs, best_epoch)
          ELSE UNCHANGED <<output_dir, train_module, weights_file>>
    /\ run_pc' = NextPhase(run_pc, run_cfg.task_class)
    /\ phases_log' = Append(phases_log, run_pc)
    /\ interrupted' = TRUE
    /\ UNCHANGED <<run_cfg, train_raised, raised, runs, cuda_pool, device_id, attrs,
                   vars_devices, trained_modules, modules_created>>

\* history_df = pd.read_csv(history path); plot_history(...).savefig(...)
\* (fit() then logs the weights file as an artifact)
TrainHistory ==
    /\ UNCHANGED <<vars_arms, vars_index, vars_net, vars_task>>
    /\ run_pc = "history"
    /\ phases_log' = Append(phases_log, run_pc)
    /\ IF "history.csv" \in output_dir.files
          /\ (run_cfg.task_class = "SupervisedModelTraining"
                \/ "weights.pt" \in output_dir.files)
       THEN /\ output_dir' = WriteFiles(output_dir, {"history.jpg"})
            /\ run_pc' = NextPhase(run_pc, run_cfg.task_class)
            /\ UNCHANGED <<interrupted, run_cfg, train_raised, raised, runs, cuda_pool,
                           device_id, attrs, vars_devices, vars_modules>>
       ELSE RunExcept([kind |-> "Exception", at |-> run_pc])

\* after_fit(): SupervisedModelTraining saves the test-set predictions when
\* test_size > 0 (create_agent loads the weights); the base classes do nothing
TrainAfterFit ==
    /\ UNCHANGED <<vars_arms, vars_index, vars_net, vars_task>>
    /\ run_pc = "after_fit"
    /\ IF run_cfg.task_class = "SupervisedModelTraining" /\ run_cfg.test_size_positive
       THEN /\ phases_log' = phases_log \o <<run_pc, "predictions">>
            /\ IF "weights.pt" \in output_dir.files
               THEN /\ attrs' = SavePredictionsAttrs(attrs, arms_config)
                    /\ output_dir' = WriteFiles(output_dir, {"test_set_predictions.csv"})
                    /\ run_pc' = NextPhase(run_pc, run_cfg.task_class)
                    /\ trained_modules' =
                           Append(trained_modules,
                                  GetTrainedModule(modules_created, weights_file))
                    /\ modules_created' = modules_created + 1
                    /\ UNCHANGED <<interrupted, run_cfg, train_raised, raised, runs, cuda_pool,
                                   device_id, vars_devices, weights_file, train_module>>
               ELSE RunExcept([kind |-> "Exception", at |-> run_pc])
       ELSE /\ phases_log' = Append(phases_log, run_pc)
            /\ run_pc' = NextPhase(run_pc, run_cfg.task_class)
            /\ UNCHANGED <<interrupted, run_cfg, output_dir, train_raised, raised, runs,
                           cuda_pool, device_id, attrs, vars_devices, vars_modules>>

\* evaluate(): get_trained_module() loads the weights, the trial evaluates
\* on the validation generator
TrainEvaluate ==
    /\ UNCHANGED <<vars_arms, vars_index, vars_net, vars_task>>
    /\ run_pc = "evaluate"
    /\ phases_log' = Append(phases_log, run_pc)
    /\ IF "weights.pt" \in output_dir.files
       THEN /\ attrs' = ValGeneratorAttrs(attrs, TRUE)
            /\ trained_modules' =
                   Append(trained_modules, GetTrainedModule(modules_created, weights_file))
            /\ modules_created' = modules_created + 1
            /\ run_pc' = NextPhase(run_pc, run_cfg.task_class)
            /\ UNCHANGED <<interrupted, run_cfg, output_dir, train_raised, raised, runs,
                           cuda_pool, device_id, vars_devices, weights_file,
                           train_module>>
       ELSE RunExcept([kind |-> "Exception", at |-> run_pc])

\* cache_cleanup()
TrainCacheCleanup ==
    /\ UNCHANGED <<vars_arms, vars_index, vars_net, vars_task>>
    /\ run_pc = "cache_cleanup"
    /\ phases_log' = Append(phases_log, run_pc)
    /\ attrs' = CacheCleanupAttrs(attrs)
    /\ run_pc' = NextPhase(run_pc, run_cfg.task_class)
    /\ UNCHANGED <<interrupted, run_cfg, output_dir, train_raised, raised, runs, cuda_pool,
                   device_id, vars_devices, vars_modules>>

\* train() returned: run() runs its finally clause and returns
RunReturn ==
    /\ UNCHANGED <<vars_arms, vars_index, vars_net, vars_task>>
    /\ run_pc = "done"
    /\ cuda_pool' = FinallyPool(attrs, device_id, cuda_pool, run_cfg)
    /\ device_id' = FinallyDeviceId(attrs, device_id, cuda_pool, run_cfg)
    /\ attrs' = FinallyAttrs(attrs, run_cfg)
    /\ device_gets' = FinallyGets(attrs, device_gets, cuda_pool, run_cfg)
    /\ device_puts' = FinallyPuts(attrs, device_id, device_puts, cuda_pool, run_cfg)
    /\ run_pc' = "returned"
    /\ UNCHANGED <<interrupted, run_cfg, phases_log, output_dir, train_raised, raised, runs,
                   vars_modules>>

NextRun ==
    \/ RunBegin
    \/ PhaseRaises
    \/ TrainSetDevice
    \/ TrainSetup
    \/ TrainTrial
    \/ TrainTrialInterrupted
    \/ TrainHistory
    \/ TrainAfterFit
    \/ TrainEvaluate
    \/ TrainCacheCleanup
    \/ RunReturn

-----------------------------------------------------------------------------
(* The index_mapping property and the data-frame properties, with the      *)
(* values they cache: the item column of each frame and the mapping of     *)
(* that column.                                                            *)

\* raw item ids of the csv files; an index is a position in the mapping
RawIds == {10, 20, 30}

TrainCsvs == UNION {[1..n -> RawIds] : n \in 1..MaxRows}

ValCsvs == {<<20>>, <<10, 30>>}

TestCsvs == {<<30>>, <<20, 10>>}

\* create_index_mapping: the distinct values in ascending order; the index
\* of a value is its position, 0 stands for a value the mapping does not have
CreateIndexMapping(values) == Sorted(Unique(values))

IndexOf(mapping, v) ==
    IF v \in Range(mapping) THEN CHOOSE i \in 1..Len(mapping) : mapping[i] = v ELSE 0

\* transform_with_indexing: every value of the column replaced by its index
TransformWithIndexing(values, mapping) ==
    [i \in 1..Len(values) |-> IndexOf(mapping, values[i])]

\* the task object and its output directory, as the properties see them
CurrentTask ==
    [attrs |-> attrs, frames |-> frames, index_mapping |-> index_mapping,
     output_dir |-> output_dir, mapping_file |-> mapping_file]

\* if not hasattr(self, "_x_data_frame"): self._x_data_frame = read_csv(...)
LoadFrame(t, which, data) ==
    IF FrameAttr(which) \in t.attrs THEN t
    ELSE [t EXCEPT !.attrs = @ \cup {FrameAttr(which)}, !.frames[which] = data[which]]

\* the index_mapping property. While the mapping is created the marker
\* _creating_index_mapping makes train_data_frame and val_data_frame return
\* their frames as they are; the mapping is cached before the file is
\* written, and open(path, "wb") raises when the output directory is missing.
IndexMappingProperty(t, data) ==
    IF "_index_mapping" \in t.attrs
    THEN [task |-> t, status |-> "returned", how |-> "cached"]
    ELSE IF "index_mapping.pkl" \in t.output_dir.files
    THEN [task   |-> [t EXCEPT !.attrs = @ \cup {"_index_mapping"},
                               !.index_mapping = t.mapping_file],
          status |-> "returned", how |-> "loaded"]
    ELSE LET t1 == [t EXCEPT !.attrs = @ \cup {"_creating_index_mapping"}]
             t2 == LoadFrame(LoadFrame(t1, "train", data), "val", data)
             df == t2.frames.train \o t2.frames.val
             t3 == [t2 EXCEPT !.attrs = @ \cup {"_index_mapping"},
                              !.index_mapping = CreateIndexMapping(df)]
         IN  IF t3.output_dir.exists
             THEN [task   |-> [t3 EXCEPT !.output_dir.files = @ \cup {"index_mapping.pkl"},
                                         !.mapping_file = t3.index_mapping,
                                         !.attrs = @ \ {"_creating_index_mapping"}],
                   status |-> "returned", how |-> "created"]
             ELSE [task |-> t3, status |-> "raised", how |-> "created"]

\* train_data_frame / val_data_frame / test_data_frame
DataFrameProperty(t, which, data) ==
    LET t1 == LoadFrame(t, which, data)
    IN  IF "_creating_index_mapping" \notin t1.attrs /\ IndexedAttr(which) \notin t1.attrs
        THEN LET r == IndexMappingProperty(t1, data)
             IN  IF r.status = "raised" THEN r
                 ELSE [r EXCEPT !.task.frames[which] =
                                    TransformWithIndexing(@, r.task.index_mapping),
                                !.task.attrs = @ \cup {IndexedAttr(which)}]
        ELSE [task |-> t1, status |-> "returned", how |-> "none"]

\* the frames cache_cleanup deletes hold nothing afterwards
CacheCleanupFrames(f, a) ==
    [which \in {"train", "val", "test"} |->
        IF FrameAttr(which) \in CacheCleanupAttrs(a) THEN f[which] ELSE <<>>]

InitIndex ==
    /\ csv \in [train : TrainCsvs, val : ValCsvs, test : TestCsvs]
    /\ frames = [train |-> <<>>, val |-> <<>>, test |-> <<>>]
    /\ index_mapping = <<>>
    /\ output_dir \in {NoDir, [exists |-> TRUE, files |-> {}],
                       [exists |-> TRUE, files |-> {"index_mapping.pkl"}]}
    /\ mapping_file \in (IF "index_mapping.pkl" \in output_dir.files
                         THEN {CreateIndexMapping(csv.train \o csv.val), <<10, 20, 30>>}
                         ELSE {<<>>})
    /\ index_result = [status |-> "none", how |-> "none", frame |-> "none",
                       values |-> <<>>]
    /\ index_log = <<>>
    /\ all_columns = <<>>
    /\ columns_result = [status |-> "none"]
    /\ GeneratorsIdle
    /\ attrs = {}
    /\ ArmsIdle
    /\ RunIdle
    /\ NetIdle
    /\ TaskIdle

\* what a property access leaves behind, whether it returned or raised
AccessEnds(r, which) ==
    /\ attrs' = r.task.attrs
    /\ frames' = r.task.frames
    /\ index_mapping' = r.task.index_mapping
    /\ output_dir' = r.task.output_dir
    /\ mapping_file' = r.task.mapping_file
    /\ index_result' = [status |-> r.status, how |-> r.how, frame |-> which,
                        values |-> IF which # "none" /\ r.status = "returned"
                                   THEN r.task.frames[which] ELSE <<>>]
    /\ index_log' = IF r.status = "returned" /\ r.how # "none"
                    THEN Append(index_log, r.task.index_mapping) ELSE index_log

\* self.index_mapping
AccessIndexMapping ==
    /\ Len(index_log) < MaxAccesses
    /\ AccessEnds(IndexMappingProperty(CurrentTask, csv), "none")
    /\ UNCHANGED <<csv, vars_columns, vars_generators, vars_arms, vars_run, vars_net, vars_task>>

\* self.train_data_frame, self.val_data_frame or self.test_data_frame
AccessDataFrame ==
    /\ Len(index_log) < MaxAccesses
    /\ \E which \in {"train", "val", "test"} :
          AccessEnds(DataFrameProperty(CurrentTask, which, csv), which)
    /\ UNCHANGED <<csv, vars_columns, vars_generators, vars_arms, vars_run, vars_net, vars_task>>

\* self.cache_cleanup()
CacheCleanupCall ==
    /\ attrs' = CacheCleanupAttrs(attrs)
    /\ frames' = CacheCleanupFrames(frames, attrs)
    /\ UNCHANGED <<csv, index_mapping, mapping_file, index_result, index_log,
                   vars_columns, vars_generators, output_dir, vars_arms, vars_run,
                   vars_net, vars_task>>

\* the frame clean() deletes holds nothing afterwards
CleanFrames(f, a) ==
    [which \in {"train", "val", "test"} |->
        IF FrameAttr(which) \in a /\ FrameAttr(which) \notin CleanAttrs(a)
        THEN <<>> ELSE f[which]]

\* self.clean()
CleanCall ==
    /\ attrs' = CleanAttrs(attrs)
    /\ frames' = CleanFrames(frames, attrs)
    /\ UNCHANGED <<csv, index_mapping, mapping_file, index_result, index_log,
                   vars_columns, vars_generators, output_dir, vars_arms, vars_run,
                   vars_net, vars_task>>

\* run() creates the output directory: os.makedirs(..., exist_ok=True)
MakeOutputDir ==
    /\ ~output_dir.exists
    /\ output_dir' = MakeDirsAndSaveParams(output_dir)
    /\ UNCHANGED <<attrs, vars_index, vars_arms, vars_run, vars_net, vars_task>>

NextIndex ==
    \/ AccessIndexMapping
    \/ AccessDataFrame
    \/ CacheCleanupCall
    \/ CleanCall
    \/ MakeOutputDir

SpecIndex == InitIndex /\ [][NextIndex]_vars

-----------------------------------------------------------------------------
(* The columns of the index mapping *)

ColumnNames == {"user", "item", "category"}

IOTypes == {"INDEXABLE", "INDEXABLE_ARRAY", "NUMBER"}

\* same_index_as of a column that declares none
NoColumn == ""

\* df[column.name].values: scalars, or arrays for an INDEXABLE_ARRAY column
ColumnValues(name) ==
    CASE name = "user"     -> <<10, 20>>
      [] name = "item"     -> <<20, 30>>
      [] name = "category" -> <<30, 30>>

ColumnArrays(name) == <<ColumnValues(name), <<10>>>>

\* create_index_mapping_from_arrays: the mapping of the values of all arrays
CreateIndexMappingFromArrays(arrays) == CreateIndexMapping(Flatten(arrays))

\* the column a chain of same_index_as ends in
RECURSIVE IndexRoot(_, _, _)
IndexRoot(cols, name, fuel) ==
    LET c == CHOOSE x \in Range(cols) : x.name = name
    IN  IF c.same_index_as = NoColumn \/ fuel = 0 THEN c
        ELSE IndexRoot(cols, c.same_index_as, fuel - 1)

\* column lists of a project: distinct names; same_index_as names another
\* column of the list, and every chain of it ends in an indexable column
\* that declares none
ColumnLists ==
    {cols \in UNION {[1..n -> [name : ColumnNames, type : IOTypes,
                               same_index_as : ColumnNames \cup {NoColumn}]] :
                        n \in 1..Cardinality(ColumnNames)} :
        /\ \A i, j \in 1..Len(cols) : i # j => cols[i].name # cols[j].name
        /\ \A i \in 1..Len(cols) :
              /\ cols[i].same_index_as # cols[i].name
              /\ cols[i].same_index_as # NoColumn =>
                    /\ \E j \in 1..Len(cols) : cols[j].name = cols[i].same_index_as
                    /\ cols[i].type # "NUMBER"}

ValidColumnLists ==
    {cols \in ColumnLists :
        \A i \in 1..Len(cols) :
            LET root == IndexRoot(cols, cols[i].name, Len(cols))
            IN  root.same_index_as = NoColumn
                /\ (cols[i].same_index_as # NoColumn => root.type # "NUMBER")}

\* the two dictionary comprehensions: the columns without same_index_as
BaseMappings(cols) ==
    [name \in {c.name : c \in {x \in Range(cols) :
                    x.type \in {"INDEXABLE", "INDEXABLE_ARRAY"}
                    /\ x.same_index_as = NoColumn}} |->
        LET c == CHOOSE x \in Range(cols) : x.name = name
        IN  IF c.type = "INDEXABLE" THEN CreateIndexMapping(ColumnValues(name))
            ELSE CreateIndexMappingFromArrays(ColumnArrays(name))]

\* for column in all_columns: if column.same_index_as:
\*     mapping[column.name] = mapping[column.same_index_as]
RECURSIVE SameIndexLoop(_, _, _)
SameIndexLoop(cols, k, mapping) ==
    IF k > Len(cols) THEN [status |-> "returned", mapping |-> mapping]
    ELSE IF cols[k].same_index_as = NoColumn THEN SameIndexLoop(cols, k + 1, mapping)
    ELSE IF cols[k].same_index_as \notin DOMAIN mapping
         THEN [status |-> "KeyError", mapping |-> mapping]
    ELSE SameIndexLoop(cols, k + 1,
             [name \in DOMAIN mapping \cup {cols[k].name} |->
                 IF name = cols[k].name THEN mapping[cols[k].same_index_as]
                 ELSE mapping[name]])

\* the dictionary the else branch of index_mapping builds
CreateColumnMappings(cols) == SameIndexLoop(cols, 1, BaseMappings(cols))

InitColumns ==
    /\ all_columns \in ValidColumnLists
    /\ columns_result = [status |-> "none"]
    /\ csv = [train |-> <<>>, val |-> <<>>, test |-> <<>>]
    /\ frames = [train |-> <<>>, val |-> <<>>, test |-> <<>>]
    /\ index_mapping = <<>>
    /\ mapping_file = <<>>
    /\ index_result = [status |-> "none", how |-> "none", frame |-> "none",
                       values |-> <<>>]
    /\ index_log = <<>>
    /\ GeneratorsIdle
    /\ attrs = {}
    /\ output_dir = [exists |-> TRUE, files |-> {}]
    /\ ArmsIdle
    /\ RunIdle
    /\ NetIdle
    /\ TaskIdle

\* the first access of index_mapping in a directory without a mapping file
CreateMappingCall ==
    /\ columns_result.status = "none"
    /\ columns_result' = CreateColumnMappings(all_columns)
    /\ attrs' = attrs \cup {"_index_mapping"}
                   \cup (IF columns_result'.status = "returned" THEN {}
                         ELSE {"_creating_index_mapping"})
    /\ output_dir' = IF columns_result'.status = "returned"
                     THEN [output_dir EXCEPT !.files = @ \cup {"index_mapping.pkl"}]
                     ELSE output_dir
    /\ UNCHANGED <<all_columns, csv, frames, index_mapping, mapping_file,
                   index_result, index_log, vars_generators, vars_arms, vars_run,
                   vars_net, vars_task>>

NextColumns == CreateMappingCall

SpecColumns == InitColumns /\ [][NextColumns]_vars

-----------------------------------------------------------------------------
(* The project configuration of a task *)

\* Column(name, type): an object of the class Column
Column(name, type) == [class |-> "Column", name |-> name, type |-> type]

\* a str object
Str(value) == [class |-> "str", value |-> value]

\* x in list: some element equals x; a str and a Column are never equal
PyIn(x, list) == \E i \in 1..Len(list) : list[i] = x

AuxColumnNames == {"ps", "weight", "hist"}

LossFunctions == {"crm", "mse", "bce"}

\* the configurations a project can declare: auxiliar output columns of
\* distinct names, the propensity score column among them or not
LoadedConfigs ==
    {[propensity_score_column_name |-> "ps", auxiliar_output_columns |-> cols] :
        cols \in {c \in UNION {[1..n -> {Column(name, "NUMBER") : name \in AuxColumnNames}] :
                                  n \in 0..MaxAuxColumns} :
                     \A i, j \in 1..Len(c) : i # j => c[i].name # c[j].name}}

\* the first access of project_config: a deep copy of the loaded
\* configuration, with the propensity score column appended under "crm" when
\* the name is not in the list of Column objects
ProjectConfig(task_loss, loaded) ==
    IF task_loss = "crm"
       /\ ~PyIn(Str(loaded.propensity_score_column_name), loaded.auxiliar_output_columns)
    THEN [cached |-> TRUE,
          auxiliar_output_columns |->
              Append(loaded.auxiliar_output_columns,
                     Column(loaded.propensity_score_column_name, "NUMBER"))]
    ELSE [cached |-> TRUE, auxiliar_output_columns |-> loaded.auxiliar_output_columns]

InitConfig ==
    /\ loss_function \in LossFunctions
    /\ loaded_config \in LoadedConfigs
    /\ project_config = NoConfig
    /\ config_accesses = 0
    /\ ParamsIdle
    /\ PlotIdle
    /\ attrs = {}
    /\ output_dir = NoDir
    /\ ArmsIdle
    /\ RunIdle
    /\ IndexIdle
    /\ NetIdle

\* self.project_config
AccessProjectConfig ==
    /\ config_accesses < MaxConfigAccesses
    /\ project_config' = IF project_config.cached THEN project_config
                         ELSE ProjectConfig(loss_function, loaded_config)
    /\ config_accesses' = config_accesses + 1
    /\ attrs' = attrs \cup {"_project_config"}
    /\ UNCHANGED <<loss_function, loaded_config, output_dir, vars_arms, vars_run,
                   vars_index, vars_net, vars_params, vars_plot>>

NextConfig == AccessProjectConfig

SpecConfig == InitConfig /\ [][NextConfig]_vars

-----------------------------------------------------------------------------
(* Saved task parameters.  A Python value is a record [t, v] of its type    *)
(* and content: int, str, tuple, list, frozendict (luigi's                  *)
(* FrozenOrderedDict) and dict, the last two as sequences of <<key, value>>;*)
(* a JSON text is the tree of numbers, strings, arrays and objects it holds.*)

PyInt(n) == [t |-> "int", v |-> n]

PyStr(x) == [t |-> "str", v |-> x]

PyTuple(items) == [t |-> "tuple", v |-> items]

PyFrozenDict(pairs) == [t |-> "frozendict", v |-> pairs]

\* json.dump(value, default=lambda o: dict(o)): tuples and lists become
\* arrays; a frozen dictionary is no JSON type, default turns it into a dict
\* and that becomes an object
RECURSIVE JsonDump(_)
JsonDump(x) ==
    CASE x.t = "int" -> [t |-> "number", v |-> x.v]
      [] x.t = "str" -> [t |-> "string", v |-> x.v]
      [] x.t \in {"tuple", "list"} ->
            [t |-> "array", v |-> [i \in 1..Len(x.v) |-> JsonDump(x.v[i])]]
      [] x.t \in {"frozendict", "dict"} ->
            [t |-> "object",
             v |-> [i \in 1..Len(x.v) |-> <<x.v[i][1], JsonDump(x.v[i][2])>>]]

\* get_params(task_dir): json.load gives lists for arrays, dicts for objects
RECURSIVE JsonLoad(_)
JsonLoad(j) ==
    CASE j.t = "number" -> PyInt(j.v)
      [] j.t = "string" -> PyStr(j.v)
      [] j.t = "array" ->
            [t |-> "list", v |-> [i \in 1..Len(j.v) |-> JsonLoad(j.v[i])]]
      [] j.t = "object" ->
            [t |-> "dict",
             v |-> [i \in 1..Len(j.v) |-> <<j.v[i][1], JsonLoad(j.v[i][2])>>]]

\* the normalisation luigi applies to the value of a ListParameter or
\* DictParameter when a task is built: lists become tuples, dictionaries
\* frozen dictionaries, at every depth; other values stay
RECURSIVE Normalize(_)
Normalize(x) ==
    CASE x.t \in {"int", "str"} -> x
      [] x.t \in {"tuple", "list"} ->
            PyTuple([i \in 1..Len(x.v) |-> Normalize(x.v[i])])
      [] x.t \in {"frozendict", "dict"} ->
            PyFrozenDict([i \in 1..Len(x.v) |-> <<x.v[i][1], Normalize(x.v[i][2])>>])

\* model_cls(**kwargs): the parameters of the task, its id and its output path
BuildTask(kwargs) ==
    LET params == [name \in DOMAIN kwargs |-> Normalize(kwargs[name])]
    IN  [param_kwargs |-> params,
         task_id      |-> <<"task_id", params>>,
         output       |-> <<"task_dir", <<"task_id", params>>>>]

\* _save_params(): the text of params.json
SaveParams(kwargs) ==
    [t |-> "object",
     v |-> [name \in DOMAIN kwargs |-> JsonDump(kwargs[name])]]

\* get_params(task_dir): the keyword arguments read from params.json
GetParams(file) == [name \in DOMAIN file.v |-> JsonLoad(file.v[name])]

\* load_torch_model_training_from_task_dir(model_cls, task_dir)
LoadFromTaskDir(dirs, dir) ==
    IF dirs[dir].params = NoFile
    THEN [status |-> "FileNotFoundError", looked_in |-> dir,
          task_dir_existed |-> dirs.task_dir.exists]
    ELSE [status |-> "loaded", looked_in |-> dir,
          task_dir_existed |-> dirs.task_dir.exists,
          task |-> BuildTask(GetParams(dirs[dir].params))]

\* load_torch_model_training_from_task_id of base.py: the task directory only
LoadFromTaskIdBase(dirs) == LoadFromTaskDir(dirs, "task_dir")

\* a loader that prefers the interaction directory whenever it exists
LoadFromTaskIdInteractionFirst(dirs) ==
    IF dirs.interaction_dir.exists THEN LoadFromTaskDir(dirs, "interaction_dir")
    ELSE LoadFromTaskDir(dirs, "task_dir")

\* load_torch_model_training_from_task_id(model_cls, task_id)
LoadFromTaskId(dirs) ==
    IF ~dirs.task_dir.exists THEN LoadFromTaskDir(dirs, "interaction_dir")
    ELSE LoadFromTaskDir(dirs, "task_dir")

MetricLists == {<<"loss">>, <<"loss", "acc">>, <<>>}

FilterDicts ==
    {<<>>,
     << <<"country", PyStr("BR")>> >>,
     << <<"item", PyTuple(<<PyInt(1), PyInt(2)>>)>> >>,
     << <<"limits", PyFrozenDict(<< <<"low", PyInt(1)>> >>)>>,
        <<"country", PyStr("BR")>> >>}

\* param_kwargs of a task: a few of its parameters, as luigi holds them
ParamKwargs ==
    {[batch_size   |-> PyInt(b),
      project      |-> PyStr("config.project"),
      metrics      |-> PyTuple([i \in 1..Len(m) |-> PyStr(m[i])]),
      isin_filters |-> PyFrozenDict(f)] :
        b \in 1..MaxBatch, m \in MetricLists, f \in FilterDicts}

InitParams ==
    /\ param_kwargs \in ParamKwargs
    /\ task_dirs = NoDirs
    /\ load_result = [status |-> "none"]
    /\ ConfigIdle
    /\ PlotIdle
    /\ attrs = {}
    /\ output_dir = NoDir
    /\ ArmsIdle
    /\ RunIdle
    /\ IndexIdle
    /\ NetIdle

\* run() of a task whose output is the task directory, or of an interaction
\* task whose output is the interaction directory: makedirs and _save_params
RunSavesParams ==
    /\ \E dir \in {"task_dir", "interaction_dir"} :
          /\ ~task_dirs[dir].exists
          /\ task_dirs' = [task_dirs EXCEPT ![dir] =
                               [exists |-> TRUE, params |-> SaveParams(param_kwargs)]]
    /\ UNCHANGED <<param_kwargs, load_result, vars_config, vars_plot, attrs, output_dir,
                   vars_arms, vars_run, vars_index, vars_net>>

\* a task directory that a run left without params.json
MakeTaskDir ==
    /\ ~task_dirs.task_dir.exists
    /\ task_dirs' = [task_dirs EXCEPT !.task_dir = [exists |-> TRUE, params |-> NoFile]]
    /\ UNCHANGED <<param_kwargs, load_result, vars_config, vars_plot, attrs, output_dir,
                   vars_arms, vars_run, vars_index, vars_net>>

LoadFromTaskDirCall ==
    /\ \E dir \in {"task_dir", "interaction_dir"} :
          load_result' = [call |-> "task_dir"] @@ LoadFromTaskDir(task_dirs, dir)
    /\ UNCHANGED <<param_kwargs, task_dirs, vars_config, vars_plot, attrs, output_dir,
                   vars_arms, vars_run, vars_index, vars_net>>

LoadFromTaskIdCall ==
    /\ load_result' = [call |-> "task_id"] @@ LoadFromTaskId(task_dirs)
    /\ UNCHANGED <<param_kwargs, task_dirs, vars_config, vars_plot, attrs, output_dir,
                   vars_arms, vars_run, vars_index, vars_net>>

LoadFromTaskIdBaseCall ==
    /\ load_result' = [call |-> "task_id"] @@ LoadFromTaskIdBase(task_dirs)
    /\ UNCHANGED <<param_kwargs, task_dirs, vars_config, vars_plot, attrs, output_dir,
                   vars_arms, vars_run, vars_index, vars_net>>

NextParams ==
    \/ RunSavesParams
    \/ MakeTaskDir
    \/ LoadFromTaskDirCall
    \/ LoadFromTaskIdCall
    \/ LoadFromTaskIdBaseCall

SpecParams == InitParams /\ [][NextParams]_vars

-----------------------------------------------------------------------------
(* The predictors of recommendation/model/contextual_bandits.py.  A tensor *)
(* is modelled by its width (dim 1); None is a value of its own.  A call   *)
(* ends "returned" or "raised" with the type of the error.                 *)

NoneTensor == [is_none |-> TRUE, width |-> 0]

Tensor(w) == [is_none |-> FALSE, width |-> w]

RepWidth(r) == IF r.is_none THEN 0 ELSE r.width

\* x = v if self.none_tensor(x) else torch.cat((x, v), dim=1), where x is a
\* record [is_none, width, error]; torch.cat of a tensor and None raises
CatStep(x, v) ==
    IF x.error # "none" THEN x
    ELSE IF x.is_none THEN [is_none |-> v.is_none, width |-> v.width, error |-> "none"]
    ELSE IF v.is_none THEN [x EXCEPT !.error = "TypeError"]
    ELSE [x EXCEPT !.width = @ + v.width]

\* if not self.none_tensor(v): x = v if self.none_tensor(x) else torch.cat((x, v), dim=1)
CatIfPresent(x, v) == IF v.is_none THEN x ELSE CatStep(x, v)

\* self.linear(x): None is not a tensor, a tensor must have the width the
\* layer was built with
Linear(x, in_features) ==
    IF x.error # "none" THEN x.error
    ELSE IF x.is_none THEN "TypeError"
    ELSE IF x.width # in_features THEN "RuntimeError"
    ELSE "none"

\* LogisticRegression.__init__
LrInit(input_dim) == [kind |-> "logistic_regression", linear_in |-> input_dim]

\* LogisticRegression.predict
LrPredict(m, item, user, context) ==
    LET x0  == [is_none |-> context.is_none, width |-> context.width, error |-> "none"]
        x   == CatIfPresent(CatIfPresent(x0, user), item)
        err == Linear(x, m.linear_in)
    IN  [status |-> IF err = "none" THEN "returned" ELSE "raised",
         error  |-> err, terms |-> <<>>]

CountPositive(dims) == Cardinality({name \in DOMAIN dims : dims[name] > 0})

\* DeepFactorizationMachine.__init__: a latent layer for every input whose
\* dimension is positive, the first-order layer over all inputs
DfmInit(n_factors, context_input_dim, item_input_dim, user_input_dim, order, deep) ==
    LET dims == [context |-> context_input_dim, item |-> item_input_dim,
                 user |-> user_input_dim]
    IN  [kind      |-> "factorization_machine",
         n_factors |-> n_factors,
         dims      |-> dims,
         layers    |-> {name \in DOMAIN dims : dims[name] > 0},
         input_dnn |-> n_factors * CountPositive(dims),
         linear_in |-> context_input_dim + item_input_dim + user_input_dim,
         order     |-> order,
         deep      |-> deep]

\* latent_vectors.append(self.<name>(representation)) for a representation
\* that is not None
LatentStep(m, acc, name, r) ==
    IF acc.error # "none" \/ r.is_none THEN acc
    ELSE IF name \notin m.layers THEN [acc EXCEPT !.error = "AttributeError"]
    ELSE IF r.width # m.dims[name] THEN [acc EXCEPT !.error = "RuntimeError"]
    ELSE [acc EXCEPT !.names = Append(@, name)]

LatentVectors(m, item, user, context) ==
    LatentStep(m,
        LatentStep(m,
            LatentStep(m, [names |-> <<>>, error |-> "none"], "context", context),
            "item", item),
        "user", user)

RECURSIVE Combinations(_, _)
\* itertools.combinations(s, k), in the order itertools yields them
Combinations(s, k) ==
    IF k = 0 THEN << <<>> >>
    ELSE IF Len(s) < k THEN <<>>
    ELSE LET rest == Combinations(Tail(s), k - 1)
         IN  [i \in 1..Len(rest) |-> <<Head(s)>> \o rest[i]]
                 \o Combinations(Tail(s), k)

RECURSIVE InteractionLoop(_, _, _, _)
\* for k in range(2, order + 1): for a, b in combinations(latent_vectors, k):
\* unpacking a combination of more than two vectors into a, b raises
InteractionLoop(latent, k, order, acc) ==
    IF k > order THEN [terms |-> acc, error |-> "none"]
    ELSE LET combos == Combinations(latent, k)
         IN  IF combos # <<>> /\ k # 2
             THEN [terms |-> acc, error |-> "ValueError"]
             ELSE InteractionLoop(latent, k + 1, order,
                      acc \o [i \in 1..Len(combos) |->
                                 [kind |-> "interaction", of |-> combos[i]]])

\* DeepFactorizationMachine.predict: the terms that are summed into the logit
DfmPredict(m, item, user, context) ==
    LET latent == LatentVectors(m, item, user, context)
        x0     == [is_none |-> TRUE, width |-> 0, error |-> "none"]
        x      == CatStep(CatStep(CatStep(x0, item), user), context)
        first  == Linear(x, m.linear_in)
        inter  == InteractionLoop(latent.names, 2, m.order,
                                  << [kind |-> "linear", of |-> <<>>] >>)
        deep   == IF ~m.deep THEN "none"
                  ELSE IF m.n_factors * Len(latent.names) # m.input_dnn
                  THEN "RuntimeError" ELSE "none"
        err    == IF latent.error # "none" THEN latent.error
                  ELSE IF first # "none" THEN first
                  ELSE IF inter.error # "none" THEN inter.error
                  ELSE deep
    IN  [status |-> IF err = "none" THEN "returned" ELSE "raised",
         error  |-> err,
         terms  |-> IF err # "none" THEN <<>>
                    ELSE inter.terms
                            \o (IF m.deep THEN << [kind |-> "deep", of |-> latent.names] >>
                                ELSE <<>>)]

\* self.predictor.predict(...)
Predict(m, item, user, context) ==
    IF m.kind = "logistic_regression" THEN LrPredict(m, item, user, context)
    ELSE DfmPredict(m, item, user, context)

\* the representations a caller hands to a predictor built for dimension d
RepsFor(d) == IF d > 0 THEN {NoneTensor, Tensor(d)} ELSE {NoneTensor}

InitFM ==
    /\ \E n_factors \in 1..MaxFactors, order \in 1..MaxOrder, deep \in BOOLEAN,
          c \in 0..MaxWidth, i \in 0..MaxWidth, u \in 0..MaxWidth :
          dfm = DfmInit(n_factors, c, i, u, order, deep)
    /\ dfm_result = [status |-> "none"]
    /\ bandit = [kind |-> "none"]
    /\ bandit_result = [status |-> "none"]
    /\ attrs = {}
    /\ output_dir = NoDir
    /\ ArmsIdle
    /\ RunIdle
    /\ IndexIdle
    /\ TaskIdle

\* predictor.predict(item_representation, user_representation, context_representation)
DfmPredictCall ==
    /\ \E item \in RepsFor(dfm.dims.item), user \in RepsFor(dfm.dims.user),
          context \in RepsFor(dfm.dims.context) :
          dfm_result' = [item |-> item, user |-> user, context |-> context]
                            @@ DfmPredict(dfm, item, user, context)
    /\ UNCHANGED <<dfm, bandit, bandit_result, attrs, output_dir,
                   vars_arms, vars_run, vars_index, vars_task>>

NextFM == DfmPredictCall

SpecFM == InitFM /\ [][NextFM]_vars

FilterSizeLists == {<<1, 3, 5>>, <<3>>, <<2, 3>>}

BanditArgs ==
    {a \in [user_embeddings : BOOLEAN, item_embeddings : BOOLEAN,
            use_textual_content : BOOLEAN, context_embeddings : BOOLEAN,
            use_numerical_content : BOOLEAN, use_buys_visits : BOOLEAN,
            use_normalize : BOOLEAN,
            n_factors : 1..MaxFactors, num_filters : 1..MaxFilters,
            numerical_content_dim : 1..MaxWidth, filter_sizes : FilterSizeLists,
            predictor : {"logistic_regression", "factorization_machine"},
            fm_order : 1..MaxOrder, fm_deep : BOOLEAN] :
        \* arguments that are not read are left at one value
        /\ a.use_textual_content \/ (a.num_filters = 1 /\ a.filter_sizes = <<1, 3, 5>>)
        /\ a.use_numerical_content \/ a.numerical_content_dim = 1
        /\ a.predictor = "factorization_machine" \/ (a.fm_order = 1 /\ ~a.fm_deep)
        /\ (a.user_embeddings \/ a.item_embeddings
              \/ a.predictor = "factorization_machine") \/ a.n_factors = 1}

RECURSIVE SumSeq(_)
SumSeq(s) == IF s = <<>> THEN 0 ELSE Head(s) + SumSeq(Tail(s))

\* ContextualBandit.__init__: the three input dimensions
UserInputDim(a) == IF a.user_embeddings THEN a.n_factors ELSE 0

ItemInputDim(a) ==
    (IF a.item_embeddings THEN a.n_factors ELSE 0)
        + (IF a.use_textual_content
           THEN SumSeq([k \in 1..Len(a.filter_sizes) |-> a.filter_sizes[k] * a.num_filters])
           ELSE 0)

ContextInputDim(a) ==
    IF a.context_embeddings
    THEN (IF a.use_buys_visits THEN 2 ELSE 0)
             + (IF a.use_numerical_content THEN a.numerical_content_dim ELSE 0)
    ELSE 0

\* ContextualBandit.__init__
BanditInit(a) ==
    [kind        |-> "contextual_bandit",
     args        |-> a,
     input_width |-> ItemInputDim(a) + ContextInputDim(a) + UserInputDim(a),
     predictor   |-> IF a.predictor = "logistic_regression"
                     THEN LrInit(ItemInputDim(a) + ContextInputDim(a) + UserInputDim(a))
                     ELSE DfmInit(a.n_factors, ContextInputDim(a), ItemInputDim(a),
                                  UserInputDim(a), a.fm_order, a.fm_deep)]

\* conv_block: one max-pooled output of num_filters channels per convolution
ConvBlock(a) == a.num_filters * Len(a.filter_sizes)

\* compute_item_embeddings: the three text fields, then the item embedding
ComputeItemEmbeddings(a) ==
    LET x0 == [is_none |-> TRUE, width |-> 0, error |-> "none"]
        x1 == IF a.use_textual_content
              THEN CatStep(x0, Tensor(ConvBlock(a) + ConvBlock(a) + ConvBlock(a))) ELSE x0
        x2 == IF a.item_embeddings THEN CatStep(x1, Tensor(a.n_factors)) ELSE x1
    IN  [is_none |-> x2.is_none, width |-> x2.width]

\* compute_context_embeddings: info, then visits and buys
ComputeContextEmbeddings(a) ==
    LET x0 == [is_none |-> TRUE, width |-> 0, error |-> "none"]
        x1 == IF a.use_numerical_content
              THEN CatStep(x0, Tensor(a.numerical_content_dim)) ELSE x0
        x2 == IF a.use_buys_visits THEN CatStep(x1, Tensor(2)) ELSE x1
    IN  [is_none |-> x2.is_none, width |-> x2.width]

\* compute_user_embeddings: out is bound only under use_normalize
ComputeUserEmbeddings(a) ==
    IF a.use_normalize
    THEN [rep |-> Tensor(a.n_factors), error |-> "none"]
    ELSE [rep |-> NoneTensor, error |-> "UnboundLocalError"]

\* ContextualBandit.forward
Forward(b) ==
    LET a       == b.args
        context == ComputeContextEmbeddings(a)
        item    == ComputeItemEmbeddings(a)
        user    == IF a.user_embeddings THEN ComputeUserEmbeddings(a)
                   ELSE [rep |-> NoneTensor, error |-> "none"]
    IN  IF user.error # "none"
        THEN [status |-> "raised", error |-> user.error, predict_called |-> FALSE,
              item |-> item, user |-> user.rep, context |-> context, terms |-> <<>>]
        ELSE [predict_called |-> TRUE, item |-> item, user |-> user.rep,
              context |-> context]
                 @@ Predict(b.predictor, item, user.rep, context)

InitBandit ==
    /\ \E a \in BanditArgs : bandit = BanditInit(a)
    /\ bandit_result = [status |-> "none"]
    /\ dfm = [kind |-> "none"]
    /\ dfm_result = [status |-> "none"]
    /\ attrs = {}
    /\ output_dir = NoDir
    /\ ArmsIdle
    /\ RunIdle
    /\ IndexIdle
    /\ TaskIdle

\* model(user_ids, item_content, ...)
ForwardCall ==
    /\ bandit_result' = Forward(bandit)
    /\ UNCHANGED <<bandit, dfm, dfm_result, attrs, output_dir,
                   vars_arms, vars_run, vars_index, vars_task>>

NextBandit == ForwardCall

SpecBandit == InitBandit /\ [][NextBandit]_vars

-----------------------------------------------------------------------------
(* The construction of a ContextualBandit *)

\* predictor names the constructor is called with
PredictorNames ==
    {"logistic_regression", "factorization_machine", "LogisticRegression", "fm", ""}

ConstructorArgs ==
    BanditArgs \cup
        {[a EXCEPT !.predictor = p] :
            a \in {b \in BanditArgs : b.predictor = "logistic_regression"},
            p \in PredictorNames}

NoModule == [kind |-> "none"]

\* a constructor whose last branch builds a factorization machine
ContextualBanditElseFm(a) ==
    [status |-> "returned", predictor |-> a.predictor, module |-> BanditInit(a)]

\* ContextualBandit(...): the branch on predictor ends the constructor with
\* NotImplementedError for every other name
ContextualBandit(a) ==
    IF a.predictor = "logistic_regression"
    THEN [status |-> "returned", predictor |-> a.predictor, module |-> BanditInit(a)]
    ELSE IF a.predictor = "factorization_machine"
    THEN [status |-> "returned", predictor |-> a.predictor, module |-> BanditInit(a)]
    ELSE [status |-> "NotImplementedError", predictor |-> a.predictor,
          module |-> NoModule]

InitConstruct ==
    /\ bandit = NoModule
    /\ bandit_result = [status |-> "none"]
    /\ dfm = [kind |-> "none"]
    /\ dfm_result = [status |-> "none"]
    /\ attrs = {}
    /\ output_dir = NoDir
    /\ ArmsIdle
    /\ RunIdle
    /\ IndexIdle
    /\ TaskIdle

\* model = ContextualBandit(...): the name is bound only when the
\* constructor returns
ConstructCall ==
    /\ bandit_result.status = "none"
    /\ \E a \in ConstructorArgs :
          /\ bandit_result' = [status    |-> ContextualBandit(a).status,
                               predictor |-> ContextualBandit(a).predictor]
          /\ bandit' = ContextualBandit(a).module
    /\ UNCHANGED <<dfm, dfm_result, attrs, output_dir, vars_arms, vars_run,
                   vars_index, vars_task>>

\* model(user_ids, item_content, ...) on a module that was built
ForwardBuiltCall ==
    /\ bandit # NoModule
    /\ bandit_result.status = "returned"
    /\ bandit_result' = [status    |-> "forward",
                         predictor |-> bandit_result.predictor,
                         forward   |-> Forward(bandit)]
    /\ UNCHANGED <<bandit, dfm, dfm_result, attrs, output_dir, vars_arms, vars_run,
                   vars_index, vars_task>>

NextConstruct == ConstructCall \/ ForwardBuiltCall

SpecConstruct == InitConstruct /\ [][NextConstruct]_vars

-----------------------------------------------------------------------------
(* The arm-scoring pipeline *)

Users == {1, 2}

\* the logged item of the observations of a user
ItemOf(u) == IF u = 1 THEN 0 ELSE MaxArm

\* values of the available-arms column: as a list of arm ids in the test
\* data frame, as a mask when an observation is handed to _prepare_for_agent
ArmColumns == {<<>>, <<MaxArm, 0, MaxArm>>}

\* the logged reward and the view history of the observations of a user, as
\* the test data frame holds them
OutputOf(u) == u - 1
HistViewOf(u) == u + 2

ObPool(with_arms) ==
    {[user |-> u, item |-> ItemOf(u), available_arms |-> a,
      output |-> OutputOf(u), hist_view |-> HistViewOf(u)] :
        u \in Users, a \in (IF with_arms THEN ArmColumns ELSE {<<>>})}

ObsLists(with_arms) == UNION {[1..n -> ObPool(with_arms)] : n \in 1..MaxObs}

\* a frame with more than ArmLimit distinct items (ArmLimit + 3 is prime, so
\* the values 7 * i modulo it are distinct)
LongFrame == [i \in 1..(ArmLimit + 2) |-> (7 * i) % (ArmLimit + 3)]

ItemFrames == {<<1>>, <<2, 0, 2>>, LongFrame}

\* unique_items: Series.unique() of the item column, cached in _unique_items
UniqueItemsValue(a, cached, df) ==
    IF "_unique_items" \in a THEN cached ELSE Unique(df)

GetArmIndicesNoLimit(ob, cfg, buffer, stream) ==
    IF cfg.available_arms_column_name
    THEN [arm_indices |-> Shuffle(FlatNonZero(ob.available_arms), stream),
          view        |-> FALSE,
          buffer      |-> buffer]
    ELSE [arm_indices |-> Shuffle(buffer, stream),
          view        |-> TRUE,
          buffer      |-> Shuffle(buffer, stream)]

\* _get_arm_indices(ob): flatnonzero gives a fresh array; unique_items[:100]
\* is a view of the cached array, so shuffling it shuffles the cache and
\* every view handed out earlier.  buffer is the cached array's content.
GetArmIndices(ob, cfg, buffer, stream) ==
    IF cfg.available_arms_column_name
    THEN [arm_indices |-> Shuffle(FlatNonZero(ob.available_arms), stream),
          view        |-> FALSE,
          buffer      |-> buffer]
    ELSE LET shuffled == Shuffle(PySlice(buffer, 0, ArmLimit), stream)
         IN  [arm_indices |-> shuffled,
              view        |-> TRUE,
              buffer      |-> shuffled \o PySlice(buffer, ArmLimit, Len(buffer))]

\* the number of arms _get_arm_indices shuffles for ob
ArmCount(ob, cfg, buffer) ==
    IF cfg.available_arms_column_name
    THEN Len(FlatNonZero(ob.available_arms))
    ELSE Min(Len(buffer), ArmLimit)

\* the random streams of one call: one per observation
CallStreams(obs, cfg, buffer) ==
    {streams \in [1..Len(obs) -> Streams] :
        \A i \in 1..Len(obs) : streams[i] \in StreamsFor(ArmCount(obs[i], cfg, buffer))}

RECURSIVE GetAllArmIndices(_, _, _, _)
\* [self._get_arm_indices(ob) for ob in obs]
GetAllArmIndices(obs, cfg, buffer, streams) ==
    IF obs = <<>> THEN [list |-> <<>>, buffer |-> buffer]
    ELSE LET n    == Len(obs)
             prev == GetAllArmIndices(SubSeq(obs, 1, n - 1), cfg, buffer, streams)
             r    == GetArmIndices(obs[n], cfg, prev.buffer, streams[n])
         IN  [list   |-> Append(prev.list, [arm_indices |-> r.arm_indices,
                                            view |-> r.view]),
              buffer |-> r.buffer]

\* what each returned array holds once every shuffle of the comprehension is done
ResolveViews(list, buffer) ==
    [i \in 1..Len(list) |->
        IF list[i].view THEN PySlice(buffer, 0, ArmLimit) ELSE list[i].arm_indices]

\* obs_columns: the user column and the other input columns; the view
\* history is an input column of some projects
ObsColumns(cfg) ==
    <<"user">> \o (IF cfg.hist_view_is_input THEN <<"hist_view">> ELSE <<>>)

\* the frame built from every key of the observation, without columns=
CreateObDataFrameAllKeys(ob, arm_indices, cfg) ==
    [j \in 1..Len(arm_indices) |->
        [user |-> ob.user, item |-> arm_indices[j],
         hist_view |-> ob.hist_view, hist_output |-> 0,
         output |-> ob.output, aux_output |-> 0]]

\* _create_ob_data_frame(ob, arm_indices): one row {**ob, item: arm} per arm,
\* cut down to obs_columns + [item], then _fill_hist_columns and the defaults
\* of the output and auxiliar output columns that the frame does not hold
CreateObDataFrame(ob, arm_indices, cfg) ==
    LET data    == [j \in 1..Len(arm_indices) |-> [ob EXCEPT !.item = arm_indices[j]]]
        columns == Range(ObsColumns(cfg)) \cup {"item"}
    IN  [j \in 1..Len(arm_indices) |->
            [user        |-> data[j].user,
             item        |-> data[j].item,
             hist_view   |-> IF "hist_view" \in columns THEN data[j].hist_view ELSE 0,
             hist_output |-> IF "hist_output" \in columns THEN data[j].hist_output ELSE 0,
             output      |-> IF "output" \in columns THEN data[j].output ELSE 1,
             aux_output  |-> IF "aux_output" \in columns THEN data[j].aux_output ELSE 0]]

\* the reward model's score of one data-set row
ModelScore(row) == (3 * row.user + 5 * row.item) % 7

\* the input features of one data-set row (obs_dataset[i][0])
RowContext(row) == <<row.user, row.item>>

BatchesDropLast(rows, batch_size) ==
    [b \in 1..(Len(rows) \div batch_size) |->
        PySlice(rows, (b - 1) * batch_size, b * batch_size)]

\* FasterBatchSampler(dataset, batch_size, shuffle=False): consecutive
\* batches of batch_size rows, the last one shorter when rows are left over
Batches(rows, batch_size) ==
    [b \in 1..((Len(rows) + batch_size - 1) \div batch_size) |->
        PySlice(rows, (b - 1) * batch_size, b * batch_size)]

GetArmScoresDropLast(rows, batch_size) ==
    LET batches == BatchesDropLast(rows, batch_size)
    IN  Flatten([b \in 1..Len(batches) |->
                    [k \in 1..Len(batches[b]) |-> ModelScore(batches[b][k])]])

\* _get_arm_scores(agent, ob_dataset): predict batch by batch, flatten
GetArmScores(rows, batch_size) ==
    LET batches == Batches(rows, batch_size)
    IN  Flatten([b \in 1..Len(batches) |->
                    [k \in 1..Len(batches[b]) |-> ModelScore(batches[b][k])]])

\* agent.bandit.calculate_scores(arm_indices, arm_contexts) of a policy
\* without reward model: one score per arm
CalculateScores(arm_indices, arm_contexts) ==
    [j \in 1..Len(arm_indices) |-> (2 * arm_indices[j]) % 5]

RECURSIVE SliceLoopSkipOne(_, _, _, _)
SliceLoopSkipOne(flat, ob_dfs, k, i) ==
    IF k > Len(ob_dfs) THEN <<>>
    ELSE <<PySlice(flat, i, i + Len(ob_dfs[k]))>>
             \o SliceLoopSkipOne(flat, ob_dfs, k + 1, i + 1)

RECURSIVE SliceLoop(_, _, _, _)
\* i = 0; for ob_df in ob_dfs: out.append(flat[i : i + len(ob_df)]); i += len(ob_df)
SliceLoop(flat, ob_dfs, k, i) ==
    IF k > Len(ob_dfs) THEN <<>>
    ELSE <<PySlice(flat, i, i + Len(ob_dfs[k]))>>
             \o SliceLoop(flat, ob_dfs, k + 1, i + Len(ob_dfs[k]))

\* _prepare_for_agent(agent, obs); buffer is the content of unique_items
PrepareForAgent(obs, cfg, buffer, streams) ==
    LET got      == GetAllArmIndices(obs, cfg, buffer, streams)
        arm_indices_list == ResolveViews(got.list, got.buffer)
        ob_dfs   == [i \in 1..Len(obs) |-> CreateObDataFrame(obs[i], arm_indices_list[i], cfg)]
        dataset  == Flatten(ob_dfs)
        contexts == [r \in 1..Len(dataset) |-> RowContext(dataset[r])]
        arm_contexts_list == SliceLoop(contexts, ob_dfs, 1, 0)
        all_arm_scores ==
            IF cfg.reward_model THEN GetArmScores(dataset, cfg.batch_size) ELSE <<>>
        arm_scores_list ==
            IF cfg.reward_model
            THEN SliceLoop(all_arm_scores, ob_dfs, 1, 0)
            ELSE [i \in 1..Len(obs) |->
                     CalculateScores(arm_indices_list[i], arm_contexts_list[i])]
    IN  [obs               |-> obs,
         dataset           |-> dataset,
         arm_contexts_list |-> arm_contexts_list,
         arm_indices_list  |-> arm_indices_list,
         arm_scores_list   |-> arm_scores_list,
         all_arm_scores    |-> all_arm_scores,
         buffer            |-> got.buffer]

\* agent.rank(arm_indices, arm_contexts, arm_scores) of a greedy policy:
\* the arms by decreasing score, and the score each carries
Rank(arm_indices, arm_contexts, arm_scores) ==
    LET n     == Min(Len(arm_indices), Len(arm_scores))
        pairs == StableSortBy([k \in 1..n |-> <<arm_indices[k], arm_scores[k]>>],
                              LAMBDA p : 0 - p[2])
    IN  [sorted_actions |-> [k \in 1..Len(pairs) |-> pairs[k][1]],
         proba_actions  |-> [k \in 1..Len(pairs) |-> pairs[k][2]]]

\* the loop over obs of _save_test_set_predictions: the available-arms list
\* of every observation becomes a 0/1 mask
EncodeObs(obs, cfg) ==
    [i \in 1..Len(obs) |->
        IF cfg.available_arms_column_name
        THEN [obs[i] EXCEPT !.available_arms =
                 EncodeMask(IF Len(@) = 0 THEN <<obs[i].item>> ELSE @)]
        ELSE obs[i]]

ActionScoresAscending(arm_scores_list) ==
    [i \in 1..Len(arm_scores_list) |-> Sorted(arm_scores_list[i])]

\* [list(reversed(sorted(action_scores))) for action_scores in arm_scores_list]
ActionScores(arm_scores_list) ==
    [i \in 1..Len(arm_scores_list) |-> Reversed(Sorted(arm_scores_list[i]))]

\* the second loop of _save_test_set_predictions and the three columns it
\* adds to the test data frame
RankAll(res) ==
    LET ranked == [i \in 1..Len(res.arm_contexts_list) |->
                      Rank(res.arm_indices_list[i], res.arm_contexts_list[i],
                           res.arm_scores_list[i])]
    IN  [sorted_actions |-> [i \in 1..Len(ranked) |-> ranked[i].sorted_actions],
         prob_actions   |-> [i \in 1..Len(ranked) |-> ranked[i].proba_actions],
         action_scores  |-> ActionScores(res.arm_scores_list)]

NoPrepared ==
    [obs |-> <<>>, dataset |-> <<>>, arm_contexts_list |-> <<>>,
     arm_indices_list |-> <<>>, arm_scores_list |-> <<>>,
     all_arm_scores |-> <<>>, buffer |-> <<>>]

NoPredictions ==
    [sorted_actions |-> <<>>, prob_actions |-> <<>>, action_scores |-> <<>>]

\* the task object after the training trial: both frames read and indexed,
\* the index mapping cached, the output directory holding the mapping file
AttrsAfterFit ==
    {"_train_data_frame", "_train_data_frame_indexed", "_val_data_frame",
     "_val_data_frame_indexed", "_index_mapping", "_train_dataset", "_val_dataset"}

InitArms ==
    /\ arms_config \in [available_arms_column_name : BOOLEAN,
                        reward_model : BOOLEAN,
                        batch_size : 1..MaxBatch,
                        hist_view_is_input : BOOLEAN]
    /\ (~arms_config.reward_model) => arms_config.batch_size = 1
    /\ df_items \in ItemFrames
    /\ arms_config.available_arms_column_name => df_items = <<1>>
    /\ test_obs \in ObsLists(arms_config.available_arms_column_name)
    /\ Len(df_items) > ArmLimit => Len(test_obs) = 1
    /\ unique_items = <<>>
    /\ prepared = NoPrepared
    /\ predictions = NoPredictions
    /\ arms_pc = "idle"
    /\ calls = 0
    /\ attrs = AttrsAfterFit
    /\ RunIdle
    /\ output_dir = NoDir
    /\ IndexIdle
    /\ NetIdle
    /\ TaskIdle

\* a direct call _prepare_for_agent(agent, obs), the available-arms column of
\* the observations being a mask
PrepareForAgentCall ==
    /\ calls < MaxCalls
    /\ LET cfg    == arms_config
           buffer == IF cfg.available_arms_column_name THEN unique_items
                     ELSE UniqueItemsValue(attrs, unique_items, df_items)
       IN  \E streams \in CallStreams(test_obs, cfg, buffer) :
              /\ prepared' = PrepareForAgent(test_obs, cfg, buffer, streams)
              /\ unique_items' = prepared'.buffer
              /\ attrs' = IF cfg.available_arms_column_name THEN attrs
                          ELSE UniqueItemsAttrs(attrs, TRUE)
    /\ arms_pc' = "prepared"
    /\ calls' = calls + 1
    /\ predictions' = NoPredictions
    /\ UNCHANGED <<arms_config, df_items, test_obs>>
    /\ UNCHANGED <<output_dir, vars_run, vars_index, vars_net, vars_task>>

\* _save_test_set_predictions(agent)
SaveTestSetPredictions ==
    /\ calls < MaxCalls
    /\ LET cfg    == arms_config
           a1     == CleanAttrs(DataFrameAttrs(attrs, "test", TRUE))
           obs    == EncodeObs(test_obs, cfg)
           buffer == IF cfg.available_arms_column_name THEN unique_items
                     ELSE UniqueItemsValue(a1, unique_items, df_items)
       IN  \E streams \in CallStreams(obs, cfg, buffer) :
              /\ prepared' = PrepareForAgent(obs, cfg, buffer, streams)
              /\ unique_items' = prepared'.buffer
              /\ attrs' = SavePredictionsAttrs(attrs, cfg)
              /\ predictions' = RankAll(prepared')
    /\ arms_pc' = "saved"
    /\ calls' = calls + 1
    /\ UNCHANGED <<arms_config, df_items, test_obs>>
    /\ UNCHANGED <<output_dir, vars_run, vars_index, vars_net, vars_task>>

NextArms == PrepareForAgentCall \/ SaveTestSetPredictions


SpecArms == InitArms /\ [][NextArms]_vars

SpecRun == InitRun /\ [][NextRun]_vars

-----------------------------------------------------------------------------
(* The batch generators of the three splits *)

\* the rows of a split, named by their position in its data frame
RowsOf(n) == [i \in 1..n |-> i]

NoneGenerator == [kind |-> "None"]

\* NoAutoCollationDataLoader(dataset, batch_sampler=FasterBatchSampler(
\*     dataset, batch_size, shuffle=shuffle))
DataLoader(dataset, size, shuffle) ==
    [kind |-> "DataLoader", dataset |-> dataset, batch_size |-> size,
     shuffle |-> shuffle]

GetTrainGenerator(data, size) == DataLoader(data.train, size, TRUE)

GetValGeneratorNeverNone(data, size) == DataLoader(data.val, size, FALSE)

GetValGenerator(data, size) ==
    IF Len(data.val) = 0 THEN NoneGenerator
    ELSE DataLoader(data.val, size, FALSE)

GetTestGenerator(data, size) == DataLoader(data.test, size, FALSE)

\* the orders a batch sampler can visit the rows in: any order when it
\* shuffles, the order of the data set when it does not
SamplerOrders(g) ==
    IF g.shuffle
    THEN {o \in [1..Len(g.dataset) -> 1..Len(g.dataset)] :
             \A i, j \in 1..Len(g.dataset) : i # j => o[i] # o[j]}
    ELSE {[i \in 1..Len(g.dataset) |-> i]}

\* one pass over a generator: the batches it yields
GeneratorBatches(g, order) ==
    Batches([i \in 1..Len(g.dataset) |-> g.dataset[order[i]]], g.batch_size)

InitGenerators ==
    /\ datasets \in {[train |-> RowsOf(t), val |-> RowsOf(v), test |-> RowsOf(e)] :
                        t \in 1..MaxDataRows, v \in 0..MaxDataRows,
                        e \in 1..MaxDataRows}
    /\ task_batch_size \in 1..MaxBatch
    /\ generator_result = [w \in {"train", "val", "test"} |-> NotCalled]
    /\ csv = [train |-> <<>>, val |-> <<>>, test |-> <<>>]
    /\ frames = [train |-> <<>>, val |-> <<>>, test |-> <<>>]
    /\ index_mapping = <<>>
    /\ mapping_file = <<>>
    /\ index_result = [status |-> "none", how |-> "none", frame |-> "none",
                       values |-> <<>>]
    /\ index_log = <<>>
    /\ all_columns = <<>>
    /\ columns_result = [status |-> "none"]
    /\ attrs = {}
    /\ output_dir = [exists |-> TRUE, files |-> {}]
    /\ ArmsIdle
    /\ RunIdle
    /\ NetIdle
    /\ TaskIdle

\* a generator is handed out and iterated once
GeneratorEnds(which, g) ==
    /\ IF g = NoneGenerator
       THEN generator_result' =
               [generator_result EXCEPT ![which] =
                   [called |-> TRUE, generator |-> g, batches |-> <<>>]]
       ELSE \E order \in SamplerOrders(g) :
               generator_result' =
                   [generator_result EXCEPT ![which] =
                       [called |-> TRUE, generator |-> g,
                        batches |-> GeneratorBatches(g, order)]]
    /\ attrs' = attrs \cup {FrameAttr(which), IndexedAttr(which), "_index_mapping"}
                   \cup (IF g = NoneGenerator THEN {} ELSE {DatasetAttr(which)})
    /\ output_dir' = WriteFiles(output_dir, {"index_mapping.pkl"})

\* self.get_train_generator()
GetTrainGeneratorCall ==
    /\ GeneratorEnds("train", GetTrainGenerator(datasets, task_batch_size))
    /\ UNCHANGED <<datasets, task_batch_size, csv, frames, index_mapping,
                   mapping_file, index_result, index_log, vars_columns, vars_arms,
                   vars_run, vars_net, vars_task>>

\* self.get_val_generator()
GetValGeneratorCall ==
    /\ GeneratorEnds("val", GetValGenerator(datasets, task_batch_size))
    /\ UNCHANGED <<datasets, task_batch_size, csv, frames, index_mapping,
                   mapping_file, index_result, index_log, vars_columns, vars_arms,
                   vars_run, vars_net, vars_task>>

\* self.get_test_generator()
GetTestGeneratorCall ==
    /\ GeneratorEnds("test", GetTestGenerator(datasets, task_batch_size))
    /\ UNCHANGED <<datasets, task_batch_size, csv, frames, index_mapping,
                   mapping_file, index_result, index_log, vars_columns, vars_arms,
                   vars_run, vars_net, vars_task>>

NextGenerators ==
    \/ GetTrainGeneratorCall
    \/ GetValGeneratorCall
    \/ GetTestGeneratorCall

SpecGenerators == InitGenerators /\ [][NextGenerators]_vars

-----------------------------------------------------------------------------
(* The exploration plot of the evaluation tool.  A data frame is a record   *)
(* of its columns idx and item; a trace is the arm it is named after, its   *)
(* x and y values and the position of its colour in the palette.  A mean    *)
(* is a record [num, den].                                                  *)

\* px.colors.qualitative.Plotly has ten colours
PlotlyColors == 10

\* np.unique(values): the distinct values, ascending
NpUnique(s) == Sorted(Unique(s))

\* arms_idx: all_items is arms when it is empty; a later position of an item
\* overwrites an earlier one
ArmsIdx(all_items, arms) ==
    LET items == IF Len(all_items) = 0 THEN arms ELSE all_items
    IN  [a \in Range(items) |->
            (CHOOSE i \in 1..Len(items) :
                 /\ items[i] = a
                 /\ \A j \in (i + 1)..Len(items) : items[j] # a) - 1]

\* count_per_arms: for every arm zeros(rounds), then a 1 at every round r
\* whose row chose the arm
CountPerArms(arms_rewards, arms) ==
    [a \in Range(arms) |->
        [r \in 1..Len(arms_rewards) |-> IF arms_rewards[r] = a THEN 1 ELSE 0]]

\* np.cumsum(values)
CumSum(values) == [r \in 1..Len(values) |-> SumSeq(SubSeq(values, 1, r))]

\* pd.Series(values).rolling(window = window, min_periods = 1).mean()
RollingMean(values, window) ==
    [r \in 1..Len(values) |->
        LET lo == IF r - window + 1 < 1 THEN 1 ELSE r - window + 1
        IN  [num |-> SumSeq(SubSeq(values, lo, r)), den |-> r - lo + 1]]

\* the loop over count_per_arms.items(), the arms in the order they were
\* inserted; arms_idx[arm] raises KeyError for an arm that all_items lacks
RECURSIVE AddTraces(_, _, _, _, _, _)
AddTraces(arms, k, counts, arms_idx, args, fig) ==
    IF k > Len(arms) THEN [status |-> "returned", traces |-> fig]
    ELSE LET arm == arms[k]
             y   == IF args.roll THEN RollingMean(counts[arm], args.window)
                    ELSE CumSum(counts[arm])
         IN  IF arm \notin DOMAIN arms_idx
             THEN [status |-> "KeyError", traces |-> <<>>]
             ELSE AddTraces(arms, k + 1, counts, arms_idx, args,
                            Append(fig, [name  |-> arm,
                                         x     |-> Sorted(args.df.idx),
                                         y     |-> y,
                                         color |-> arms_idx[arm] % PlotlyColors]))

\* plot_exploration_arm(df, title, window, roll, all_items)
PlotExplorationArm(args) ==
    LET arms == NpUnique(args.df.item)
    IN  AddTraces(arms, 1, CountPerArms(args.df.item, arms),
                  ArmsIdx(args.all_items, arms), args, <<>>)

PlotArms == 0..MaxPlotArm

\* data frames of up to MaxRounds rows, idx counting the rows up or down
PlotFrames ==
    UNION {{[idx |-> [i \in 1..n |-> IF up THEN i - 1 ELSE n - i], item |-> item] :
               up \in BOOLEAN, item \in [1..n -> PlotArms]} : n \in 0..MaxRounds}

AllItemsLists == UNION {[1..n -> PlotArms] : n \in 0..MaxAllItems}

InitPlot ==
    /\ plot_args \in [df : PlotFrames, window : 1..MaxWindow, roll : BOOLEAN,
                      all_items : AllItemsLists]
    /\ (~plot_args.roll) => plot_args.window = 1
    /\ plot_result = [status |-> "none"]
    /\ ConfigIdle
    /\ ParamsIdle
    /\ attrs = {}
    /\ output_dir = NoDir
    /\ ArmsIdle
    /\ RunIdle
    /\ IndexIdle
    /\ NetIdle

PlotExplorationArmCall ==
    /\ plot_result.status = "none"
    /\ plot_result' = PlotExplorationArm(plot_args)
    /\ UNCHANGED <<plot_args, vars_config, vars_params, attrs, output_dir,
                   vars_arms, vars_run, vars_index, vars_net>>

NextPlot == PlotExplorationArmCall

SpecPlot == InitPlot /\ [][NextPlot]_vars


-----------------------------------------------------------------------------
(* Claims about the arm-scoring pipeline, checked under SpecArms *)

\* the observations, arm lists, contexts and scores of the last call
P_obs == prepared.obs
P_arms == prepared.arm_indices_list
P_contexts == prepared.arm_contexts_list
P_scores == prepared.arm_scores_list

FirstItems(df) ==
    {df[k] : k \in {k \in 1..Len(df) :
                       Cardinality({df[j] : j \in 1..(k - 1)}) < ArmLimit}}

\* C2: with an available-arms column the arms of an observation are exactly
\* the positions of the non-zero entries of its mask, each once; without one
\* they are exactly the first ArmLimit distinct item values of the
\* train+validation frame, each once.
C2_ArmIndicesArePermutation ==
    arms_pc # "idle" =>
        \A i \in 1..Len(P_obs) :
            IF arms_config.available_arms_column_name
            THEN LET mask == P_obs[i].available_arms
                 IN  /\ Range(P_arms[i]) \subseteq 0..(Len(mask) - 1)
                     /\ \A p \in 0..(Len(mask) - 1) :
                           Count(P_arms[i], p) = IF mask[p + 1] # 0 THEN 1 ELSE 0
            ELSE /\ Range(P_arms[i]) = FirstItems(df_items)
                 /\ Len(P_arms[i]) = Cardinality(FirstItems(df_items))
                 /\ Len(P_arms[i]) = Min(Cardinality(Range(df_items)), ArmLimit)

\* C2 witness: more than ArmLimit distinct items, and the arms returned are a
\* proper rearrangement of the first ArmLimit of them
C2_Witness ==
    /\ arms_pc # "idle"
    /\ ~arms_config.available_arms_column_name
    /\ Cardinality(Range(df_items)) > ArmLimit
    /\ Len(P_arms[1]) = ArmLimit
    /\ P_arms[1] # PySlice(Unique(df_items), 0, ArmLimit)

NonIncreasing(s) == \A k \in 1..(Len(s) - 1) : s[k] >= s[k + 1]

RECURSIVE ArmOffset(_)
\* the number of arms of the observations before observation i
ArmOffset(i) == IF i = 1 THEN 0 ELSE ArmOffset(i - 1) + Len(P_arms[i - 1])

-----------------------------------------------------------------------------
(* Claims about run() and train() *)

\* C5: if train() raises an Exception inside run(), the output directory is
\* removed and the same exception propagates to the caller of run(): after
\* the failed run the output target does not exist.
C5_FailedRunRemovesOutput ==
    (run_pc = "raised" /\ train_raised.kind = "Exception")
        => (~OutputExists /\ raised = train_raised)

\* a run whose trial wrote its files and whose next phase raised an Exception
C5_Witness ==
    /\ run_pc = "raised"
    /\ train_raised.kind = "Exception"
    /\ train_raised.at = "history"
    /\ "trial" \in Range(phases_log)
    /\ ~OutputExists

\* C6: whenever the output directory can be observed to exist, run() has
\* completed train() successfully: it does not exist while training is in
\* progress nor after run() was ended by an exception of any kind.
C6_OutputMarksFinishedTask == OutputExists => run_pc = "returned"

IsPrefix(s, t) == Len(s) <= Len(t) /\ s = SubSeq(t, 1, Len(s))

\* the phases of TorchModelTraining.train in the order the claim gives them
ExpectedPhases(cfg) ==
    <<"set_device", "setup", "trial", "history", "after_fit">>
        \o (IF cfg.test_size_positive THEN <<"predictions">> ELSE <<>>)
        \o <<"evaluate", "cache_cleanup">>

\* C10: train() of a SupervisedModelTraining enters its phases in the order
\* trial, history, after_fit, evaluate, cache_cleanup; the test-set
\* predictions are produced inside after_fit exactly when test_size > 0, and
\* so never before the trial has ended.
C10_PhasesInFixedOrder ==
    run_cfg.task_class = "SupervisedModelTraining"
        => /\ IsPrefix(phases_log, ExpectedPhases(run_cfg))
           /\ run_pc \in {"done", "returned"} => phases_log = ExpectedPhases(run_cfg)

\* a run with test_size > 0 that went through every phase
C10_Witness ==
    /\ run_cfg.task_class = "SupervisedModelTraining"
    /\ run_cfg.test_size_positive
    /\ run_pc = "returned"
    /\ "predictions" \in Range(phases_log)
    /\ "test_set_predictions.csv" \in output_dir.files

-----------------------------------------------------------------------------
(* Claims about index_mapping *)

\* C7: index_mapping is load-or-create and stable: once an access of the
\* property has returned, the index-mapping file exists and holds the mapping
\* returned, every access returned that same mapping, and a mapping that was
\* created is the mapping of the raw train and validation values only.
C7_IndexMappingLoadOrCreate ==
    (index_result.status = "returned" /\ index_result.how # "none")
        => /\ "index_mapping.pkl" \in output_dir.files
           /\ mapping_file = index_mapping
           /\ \A i \in 1..Len(index_log) : index_log[i] = index_mapping
           /\ index_result.how = "created"
                 => index_mapping = CreateIndexMapping(csv.train \o csv.val)

-----------------------------------------------------------------------------
(* Claims about the predictors *)

\* the inputs of the last predict call fit the machine: a representation is
\* given exactly for the inputs it was built with, and one is given at all
DfmInputsFit ==
    /\ dfm_result.status # "none"
    /\ \A name \in {"item", "user", "context"} :
          dfm_result[name] = (IF dfm.dims[name] > 0 THEN Tensor(dfm.dims[name])
                              ELSE NoneTensor)
    /\ dfm.linear_in > 0

InteractionTerms ==
    SelectSeq(dfm_result.terms, LAMBDA t : t.kind = "interaction")

\* C8: predict of a machine of order n returns a result for every n >= 1, and
\* the terms it sums hold exactly one interaction term for every subset of
\* 2..n of the latent vectors that are present.
C8_EveryInteractionTermAdded ==
    DfmInputsFit
        => /\ dfm_result.status = "returned"
           /\ {Range(InteractionTerms[i].of) : i \in 1..Len(InteractionTerms)}
                 = {S \in SUBSET dfm.layers :
                       Cardinality(S) >= 2 /\ Cardinality(S) <= dfm.order}
           /\ Len(InteractionTerms)
                 = Cardinality({S \in SUBSET dfm.layers :
                                   Cardinality(S) >= 2 /\ Cardinality(S) <= dfm.order})

\* C9: the input width __init__ builds the predictor with equals the total
\* width of the item, user and context representations forward() hands to
\* predictor.predict.
C9_InitWidthIsForwardWidth ==
    (bandit_result.status # "none" /\ bandit_result.predict_called)
        => bandit.input_width
              = RepWidth(bandit_result.item) + RepWidth(bandit_result.user)
                    + RepWidth(bandit_result.context)

-----------------------------------------------------------------------------
(* Claims about the trained module and the cuda devices *)

\* C11: every module get_trained_module returns is a new module, not the one
\* the trial trained, it holds the state of the checkpoint file at the weights
\* path (as long as run() has not removed the directory) and is in eval
\* mode; inside train() it is returned only after the trial has run.
C11_TrainedModuleComesFromCheckpoint ==
    \A i \in 1..Len(trained_modules) :
        /\ trained_modules[i].id # train_module.id
        /\ \A j \in 1..Len(trained_modules) :
              i # j => trained_modules[i].id # trained_modules[j].id
        /\ run_pc # "raised"
              => (weights_file # NoWeights /\ trained_modules[i].state = weights_file)
        /\ trained_modules[i].mode = "eval"
        /\ "trial" \in Range(phases_log)

\* the agent and evaluate each got a module, and the checkpoint holds an
\* earlier epoch than the last one the trial trained
C11_Witness ==
    /\ Len(trained_modules) = 2
    /\ train_module.state.run = weights_file.run
    /\ train_module.state.epoch > weights_file.epoch
    /\ run_pc = "returned"

\* C19: no device id is put back to the repository more often than it was
\* obtained from it, over every sequence of run() calls.
C19_DevicePutAtMostOncePerGet ==
    \A d \in DOMAIN device_puts : device_puts[d] <= device_gets[d]

-----------------------------------------------------------------------------
(* Claims about the data-frame properties *)

\* C12: a frame that a data-frame property returns while no index mapping is
\* being created has had transform_with_indexing applied exactly once: its
\* column holds the indexes of the raw values of the csv file, whatever
\* cache_cleanup() and clean() calls came before.
C12_ReturnedFrameIndexedOnce ==
    (index_result.status = "returned" /\ index_result.frame # "none"
        /\ "_creating_index_mapping" \notin attrs)
        => index_result.values
              = TransformWithIndexing(csv[index_result.frame], index_mapping)

-----------------------------------------------------------------------------
(* Claims about the candidate arms of _save_test_set_predictions *)

\* the available-arms list the test data frame holds for observation i, with
\* the logged item standing in for an empty list
ListedArms(i) ==
    IF test_obs[i].available_arms = <<>> THEN {test_obs[i].item}
    ELSE Range(test_obs[i].available_arms)

\* C13: with an available-arms column, the arms reconstructed from the mask
\* of an observation are exactly the distinct values of its available-arms
\* list, arm 0 included, each once; for an empty list they are the logged
\* item alone.
C13_MaskRoundTrip ==
    (arms_pc = "saved" /\ arms_config.available_arms_column_name) =>
        \A i \in 1..Len(test_obs) :
            /\ Range(P_arms[i]) = ListedArms(i)
            /\ Len(P_arms[i]) = Cardinality(ListedArms(i))

\* one observation with an empty list, one with a list that repeats an arm
\* and holds arm 0
C13_Witness ==
    /\ arms_pc = "saved"
    /\ arms_config.available_arms_column_name
    /\ Len(test_obs) = 2
    /\ test_obs[1].available_arms = <<>>
    /\ test_obs[2].available_arms = <<MaxArm, 0, MaxArm>>
    /\ Range(P_arms[2]) = {0, MaxArm}
    /\ P_arms[1] = <<test_obs[1].item>>

\* C14: the logged item of every test-set observation is one of the candidate
\* arms reconstructed for it.
C14_LoggedItemIsCandidate ==
    arms_pc = "saved" =>
        \A i \in 1..Len(test_obs) : test_obs[i].item \in Range(P_arms[i])

\* C15: the data set holds, for every observation, one row per candidate arm
\* in the order of its arm list; a row carries the observation's user and
\* input columns and the arm as its item; output is 1 and the auxiliar
\* output and history columns are 0 unless obs_columns supplies them.
C15_OneRowPerArm ==
    arms_pc # "idle" =>
        /\ Len(prepared.dataset) = ArmOffset(Len(P_obs) + 1)
        /\ \A i \in 1..Len(P_obs) : \A j \in 1..Len(P_arms[i]) :
              LET row == prepared.dataset[ArmOffset(i) + j]
              IN  /\ row.user = P_obs[i].user
                  /\ row.item = P_arms[i][j]
                  /\ row.hist_view = (IF arms_config.hist_view_is_input
                                      THEN P_obs[i].hist_view ELSE 0)
                  /\ row.output = 1
                  /\ row.aux_output = 0
                  /\ row.hist_output = 0

\* an observation with two arms whose logged reward is 0 and whose logged
\* item is not the arm of its second row, in a project where the view
\* history is an input column
C15_Witness ==
    /\ arms_pc # "idle"
    /\ arms_config.hist_view_is_input
    /\ \E i \in 1..Len(P_obs) :
          /\ Len(P_arms[i]) = 2
          /\ P_obs[i].output = 0
          /\ P_obs[i].item # P_arms[i][2]
          /\ prepared.dataset[ArmOffset(i) + 2].hist_view = HistViewOf(P_obs[i].user)

-----------------------------------------------------------------------------
(* Claims about the columns of the index mapping, checked under SpecColumns *)

\* C16: once the mapping has been built, every INDEXABLE and INDEXABLE_ARRAY
\* column has an entry and a column with same_index_as has the mapping of
\* the column it names, whatever the order of all_columns.
C16_EveryColumnMapped ==
    columns_result.status # "none" =>
        /\ columns_result.status = "returned"
        /\ \A i \in 1..Len(all_columns) :
              LET c == all_columns[i]
              IN  /\ c.type \in {"INDEXABLE", "INDEXABLE_ARRAY"}
                        => c.name \in DOMAIN columns_result.mapping
                  /\ c.same_index_as # NoColumn
                        => (/\ c.name \in DOMAIN columns_result.mapping
                            /\ c.same_index_as \in DOMAIN columns_result.mapping
                            /\ columns_result.mapping[c.name]
                                  = columns_result.mapping[c.same_index_as])

-----------------------------------------------------------------------------
(* Claims about the batch generators, checked under SpecGenerators *)

\* every batch but the last holds n rows, the last one between 1 and n
BatchesOfSize(batches, n) ==
    \A b \in 1..Len(batches) :
        /\ Len(batches[b]) \in 1..n
        /\ b < Len(batches) => Len(batches[b]) = n

\* C17: the train generator yields the rows of the train data set in batches
\* of batch_size in a shuffled order; the validation and test generators
\* yield theirs in batches of batch_size in the order of the data set; the
\* validation generator is None exactly when the validation frame is empty.
C17_GeneratorsBatchTheirSplit ==
    \A w \in {"train", "val", "test"} :
        generator_result[w].called =>
            LET g == generator_result[w].generator
                batches == generator_result[w].batches
            IN  /\ (g = NoneGenerator) <=> (w = "val" /\ Len(datasets.val) = 0)
                /\ g # NoneGenerator =>
                      /\ g.batch_size = task_batch_size
                      /\ g.shuffle = (w = "train")
                      /\ BatchesOfSize(batches, task_batch_size)
                      /\ IsPermutation(Flatten(batches), datasets[w])
                      /\ w # "train" => Flatten(batches) = datasets[w]

\* a train pass whose rows come out of order, in two batches with a short
\* last one, a test pass, and the validation generator of an empty frame
C17_Witness ==
    /\ generator_result["train"].called
    /\ Len(generator_result["train"].batches) = 2
    /\ Len(generator_result["train"].batches[2]) < task_batch_size
    /\ Flatten(generator_result["train"].batches) # datasets.train
    /\ generator_result["test"].called
    /\ Len(generator_result["test"].batches) > 1
    /\ generator_result["val"].called
    /\ generator_result["val"].generator = NoneGenerator
    /\ Len(datasets.val) = 0

-----------------------------------------------------------------------------
(* Claims about the construction of a ContextualBandit, under SpecConstruct *)

\* C18: a constructor call returns a module only for the predictors
\* "logistic_regression" and "factorization_machine", with the predictor of
\* that kind; for every other name it ends with NotImplementedError and no
\* module exists.
C18_OnlyTwoPredictors ==
    bandit_result.status # "none" =>
        IF bandit_result.predictor \in {"logistic_regression", "factorization_machine"}
        THEN /\ bandit_result.status # "NotImplementedError"
             /\ bandit # NoModule
             /\ bandit.predictor.kind = bandit_result.predictor
        ELSE /\ bandit_result.status = "NotImplementedError"
             /\ bandit = NoModule

\* a constructor call with another predictor name has ended
C18_Witness ==
    /\ bandit_result.status = "NotImplementedError"
    /\ bandit_result.predictor = "LogisticRegression"
    /\ bandit = NoModule

-----------------------------------------------------------------------------
(* Claims about the marker of the index mapping, checked under SpecIndex *)

\* C20: between two accesses of the task's properties the attribute
\* _creating_index_mapping does not exist, also when the last access ended
\* with an exception.
C20_MarkerOnlyWhileBuilding == "_creating_index_mapping" \notin attrs

-----------------------------------------------------------------------------
(* Claims about the project configuration, checked under SpecConfig *)

\* the columns of a list that carry a name
NamedColumns(cols, name) == {i \in 1..Len(cols) : cols[i].name = name}

\* C21: under "crm" the configuration returned holds exactly one auxiliar
\* output column with the propensity score name, whatever the loaded
\* configuration listed and however often the property was read; under any
\* other loss function its auxiliar output columns are the loaded ones.
C21_OnePropensityColumn ==
    project_config.cached =>
        IF loss_function = "crm"
        THEN Cardinality(NamedColumns(project_config.auxiliar_output_columns,
                                      loaded_config.propensity_score_column_name)) = 1
        ELSE project_config.auxiliar_output_columns
                 = loaded_config.auxiliar_output_columns

-----------------------------------------------------------------------------
(* Claims about absent and unnormalised representations *)

\* C22: a forward call of a bandit with user embeddings hands the user
\* embedding, of width n_factors, to the predictor, whatever use_normalize is.
C22_UserEmbeddingsReturned ==
    (bandit_result.status # "none" /\ bandit.args.user_embeddings)
        => /\ bandit_result.predict_called
           /\ bandit_result.user = Tensor(bandit.args.n_factors)

\* C23: a predict call of a factorization machine that is given exactly the
\* representations it was built for, at least one, does not fail on the
\* absent ones: its linear term is computed over the present ones.
C23_AbsentRepresentationsSkipped ==
    DfmInputsFit => dfm_result.error # "TypeError"

-----------------------------------------------------------------------------
(* Claims about an interrupted trial, checked under SpecRun *)

\* C24: after a KeyboardInterrupt inside trial.run, train() goes on: the
\* history it reads next is there, and a run that returns leaves the output
\* directory in place.
C24_InterruptedTrainingContinues ==
    interrupted =>
        /\ run_pc = "history" => "history.csv" \in output_dir.files
        /\ run_pc = "returned" => OutputExists

-----------------------------------------------------------------------------
(* Claims about saved task parameters, checked under SpecParams *)

\* C25: a task loaded from a directory whose params.json a run wrote has the
\* parameters, the task id and the output path of the task that ran; a load
\* by task id looks in the interaction directory only when the task
\* directory does not exist.
C25_ParamsRoundTrip ==
    /\ load_result.status = "loaded" =>
          /\ load_result.task.param_kwargs = param_kwargs
          /\ load_result.task.task_id = BuildTask(param_kwargs).task_id
          /\ load_result.task.output = BuildTask(param_kwargs).output
    /\ (load_result.status # "none" /\ load_result.call = "task_id"
           /\ load_result.looked_in = "interaction_dir")
          => ~load_result.task_dir_existed

\* a task with a tuple and a nested frozen dictionary among its parameters,
\* loaded by id from the interaction directory
C25_Witness ==
    /\ load_result.status = "loaded"
    /\ load_result.call = "task_id"
    /\ load_result.looked_in = "interaction_dir"
    /\ Len(param_kwargs.metrics.v) = 2
    /\ Len(param_kwargs.isin_filters.v) = 2
    /\ load_result.task.param_kwargs.isin_filters = param_kwargs.isin_filters


\* C26: _get_arm_indices leaves the cached unique_items as it was computed,
\* the unique items of the item column in order of first appearance, however
\* many calls were made; only the returned list is shuffled.
C26_CachedUniqueItemsKeepOrder ==
    ("_unique_items" \in attrs /\ arms_pc # "idle"
        /\ ~arms_config.available_arms_column_name)
        => unique_items = Unique(df_items)


-----------------------------------------------------------------------------
(* Claims about the exploration plot, checked under SpecPlot *)

\* the traces of the returned figure that are named after arm a
TracesOf(a) == {k \in 1..Len(plot_result.traces) : plot_result.traces[k].name = a}

\* the cumulative counts of all traces at row position r (1-based)
PlottedAt(r) == SumSeq([k \in 1..Len(plot_result.traces) |-> plot_result.traces[k].y[r]])

\* with roll = False the cumulative counts plotted for all arms at the
\* 0-based row position r sum to r + 1, in every figure that is returned
CountsSumToRounds ==
    (plot_result.status = "returned" /\ ~plot_args.roll)
        => \A r \in 1..Len(plot_args.df.item) : PlottedAt(r) = r

\* C27: with roll = False every round increments the count of exactly one
\* arm, so the cumulative counts over all arms sum to r + 1, and every arm
\* occurring in df gets a trace, whatever all_items list is passed.
C27_EveryArmGetsATrace ==
    (plot_result.status # "none" /\ ~plot_args.roll)
        => /\ plot_result.status = "returned"
           /\ \A a \in Range(plot_args.df.item) : Cardinality(TracesOf(a)) = 1
           /\ \A r \in 1..Len(plot_args.df.item) : PlottedAt(r) = r

====
